---- MODULE Spec2Model ----
(***************************************************************************)
(* ARDOUR::IO (libs/ardour/io.cc, libs/ardour/ardour/io.h): the port set   *)
(* of one IO object behind its RCU manager, the backend's port registry,   *)
(* the process lock, and the control threads that call add_port,           *)
(* remove_port, ensure_ports, connect and disconnect.                      *)
(***************************************************************************)
EXTENDS Integers, Sequences, FiniteSets, TLC

\* ---------------------------------------------------------------- bounds
\* registrations the backend accepts through this IO in one run
MaxPorts == 3
\* largest per-type count a caller requests from ensure_ports
MaxCount == 2
\* observers attached to PortCountChanging
MaxObs == 1
\* largest latency, in samples, a port reports
MaxLatency == 1
\* registrations the backend accepts while two threads write
MaxShared == 2
\* AudioEngine::port_name_size (), the backend's limit
PortNameSize == 24

\* ------------------------------------------------------ program constants
\* find_port_hole: for (n = 1; n < 9999; ++n)
PortNumberLimit == 9999
\* can_add_port: ports()->count ().n_midi() < 1
MidiPortCap == 1

VARIABLES
    io,      \* the IO object's own fields
    rcu,     \* SerializedRCUManager<PortSet> _ports: the PortSet objects, the
             \* current one and the one a reader holds (0: none)
    bports,  \* the backend's ports, by handle (1 is a port of another client)
    lock,    \* AudioEngine::process_lock (): 0, or the thread holding it
    dirty,   \* Session::set_dirty () was called
    th,      \* control threads: position in the method they run, and its locals
    rd       \* a reader (the process callback, a latency query) holding a snapshot

vars == <<io, rcu, bports, lock, dirty, th, rd>>

\* ------------------------------------------------------------ data types
Types == {"AUDIO", "MIDI"}
\* DataType::begin () .. DataType::end ()
TypeSeq == <<"AUDIO", "MIDI">>
Threads == {1, 2}
SeqThreads == {1}
ObjIds == 1 .. 4
\* AudioEngine::my_name ()
MyName == "ard"
\* the owners: an audio track's IO and a MIDI send's IO
Owners ==
    {[name |-> "io", sendish |-> FALSE, default_type |-> "AUDIO"],
     [name |-> "a:bcdefghijk", sendish |-> TRUE, default_type |-> "MIDI"]}
\* names of ports of other clients, and the empty name
OtherNames == {"", "sys:p1"}

ZeroCount == [t \in Types |-> 0]
EmptySet == [t \in Types |-> <<>>]
NoIOChange == [type |-> {}, before |-> ZeroCount, after |-> ZeroCount]

Min(a, b) == IF a < b THEN a ELSE b

\* ------------------------------------------------------------- strings
Take(s, n) == SubSeq(s, 1, Min(n, Len(s)))

RECURSIVE replace_all(_, _, _)
replace_all(s, a, b) ==
    IF Len(s) = 0 THEN ""
    ELSE (IF SubSeq(s, 1, 1) = a THEN b ELSE SubSeq(s, 1, 1))
         \o replace_all(SubSeq(s, 2, Len(s)), a, b)

legalize_io_name(n) == replace_all(n, ":", "-")

\* std::snprintf (buf, size, ...): at most size - 1 characters are stored
snprintf(size, s) == Take(s, size - 1)

\* "%.*s": a negative precision is taken as if the precision were omitted
precision(limit, s) == IF limit < 0 THEN s ELSE Take(s, limit)

\* std::string::npos, and positions counted from 0 as std::string counts them
npos == -1
\* std::string::substr (pos, n)
substr(s, pos, n) == SubSeq(s, pos + 1, Min(pos + n, Len(s)))
\* std::string::find (sub, pos)
RECURSIVE find(_, _, _)
find(s, sub, pos) ==
    IF pos + Len(sub) > Len(s) THEN npos
    ELSE IF substr(s, pos, Len(sub)) = sub THEN pos
    ELSE find(s, sub, pos + 1)
\* std::string::replace (pos, n, r)
replace(s, pos, n, r) == substr(s, 0, pos) \o r \o SubSeq(s, pos + n + 1, Len(s))

\* --------------------------------------------------------------- PortSet
count(ps) == [t \in Types |-> Len(ps[t])]
n_total(c) == c["AUDIO"] + c["MIDI"]
\* how far a exceeds b
Excess(a, b) == IF a > b THEN a - b ELSE 0
all_ports(ps) == ps["AUDIO"] \o ps["MIDI"]
num_ports(ps) == Len(all_ports(ps))
empty(ps) == num_ports(ps) = 0
InSeq(s, p) == \E i \in 1 .. Len(s) : s[i] = p
contains(ps, p) == \E t \in Types : InSeq(ps[t], p)
\* PortSet::port (type, n), n counted from 0
port(ps, t, n) == ps[t][n + 1]

RECURSIVE Without(_, _)
Without(s, p) ==
    IF Len(s) = 0 THEN <<>>
    ELSE IF Head(s) = p THEN Tail(s)
    ELSE <<Head(s)>> \o Without(Tail(s), p)

remove(ps, p) == [t \in Types |-> Without(ps[t], p)]
add(ps, p, t) == [ps EXCEPT ![t] = Append(@, p)]

\* ------------------------------------------------------------- backend
\* a port: priv is the upper bound of its private latency range and conn that
\* of the latency range of what it is connected to, for capture and playback
ForeignPort ==
    [name |-> "bus/audio_out 1", type |-> "AUDIO", input |-> FALSE, unreg |-> 0,
     conns |-> {}, pretty |-> "", mine |-> FALSE,
     priv |-> [playback \in BOOLEAN |-> 0], conn |-> [playback \in BOOLEAN |-> 0]]

NewPort(name, t, input) ==
    [name |-> name, type |-> t, input |-> input, unreg |-> 0,
     conns |-> {}, pretty |-> "", mine |-> TRUE,
     priv |-> [playback \in BOOLEAN |-> 0], conn |-> [playback \in BOOLEAN |-> 0]]

register_input_port(bp, t, name) == Append(bp, NewPort(name, t, TRUE))
register_output_port(bp, t, name) == Append(bp, NewPort(name, t, FALSE))
\* the Port object is gone with its last reference: what stays is how often
\* its handle was unregistered, and who had registered it
unregister_port(bp, p) ==
    [bp EXCEPT ![p] = [name |-> "", type |-> "NIL", input |-> FALSE,
                       unreg |-> @.unreg + 1, conns |-> {}, pretty |-> "",
                       mine |-> @.mine,
                       priv |-> [playback \in BOOLEAN |-> 0],
                       conn |-> [playback \in BOOLEAN |-> 0]]]
port_connect(bp, p, other) == [bp EXCEPT ![p].conns = @ \cup {other}]
port_disconnect(bp, p, other) == [bp EXCEPT ![p].conns = @ \ {other}]
disconnect_all(bp, p) == [bp EXCEPT ![p].conns = {}]
connected(bp, p) == bp[p].conns # {}
make_port_name_non_relative(n) == MyName \o ":" \o n

\* ------------------------------------------------------------------ RCU
Current == rcu.heap[rcu.cur]
\* objects are numbered by their holder: CurObj is the managed object, OldObj
\* an earlier one a reader still holds, CopyObj(t) the copy of writer t
CurObj == 1
OldObj == 2
CopyObj(t) == 2 + t

\* RCUWriter::get_copy (): a private copy of the current PortSet
get_copy(r, o) == [obj |-> o, heap |-> [r.heap EXCEPT ![o] = r.heap[r.cur]]]
\* ~RCUWriter (): the copy becomes the current PortSet
update(r, o) ==
    IF o = r.cur THEN r
    ELSE [r EXCEPT !.heap = [r.heap EXCEPT ![r.cur] = r.heap[o], ![o] = EmptySet,
                                           ![OldObj] = IF r.held = r.cur
                                                       THEN r.heap[r.cur] ELSE @],
                   !.held = IF @ = r.cur THEN OldObj ELSE @]

writer_shared(r, o) == [obj |-> r.cur, heap |-> r.heap]
\* RCUWriter<PortSet> writer (_ports); p = writer.get_copy ();
writer_copy(r, o) == get_copy(r, o)

\* ------------------------------------------------------ port name allocator
port_names(ps, bp) == {bp[all_ports(ps)[i]].name : i \in 1 .. num_ports(ps)}

\* a counter that never goes back to a freed number
port_hole_next(names, base, n) == n + Cardinality(names)
\* find_port_hole's loop, for (n = 1; n < 9999; ++n), from n on: the first
\* number whose name no port carries, and 9999 when there is none below it
\* (a number above the number of names is always free)
port_hole(names, base, n) ==
    LET free == {m \in n .. Min(n + Cardinality(names), PortNumberLimit - 1) :
                    snprintf(PortNameSize + 1, base \o " " \o ToString(m)) \notin names}
    IN IF free = {} THEN PortNumberLimit
       ELSE CHOOSE m \in free : \A x \in free : m <= x

find_port_hole_count(ps, bp, base) == num_ports(ps) + 1
find_port_hole(ps, bp, base) ==
    IF empty(ps) THEN 1 ELSE port_hole(port_names(ps, bp), base, 1)

type_suffix(ioo, t) ==
    (IF t = "AUDIO" THEN "audio" ELSE "midi")
    \o (IF ioo.sendish
        THEN (IF ioo.direction = "Input" THEN "_return" ELSE "_send")
        ELSE (IF ioo.direction = "Input" THEN "_in" ELSE "_out"))

name_limit(ioo, t) == PortNameSize - Len(MyName) - (Len(type_suffix(ioo, t)) + 5)

port_name_base(ioo, t) ==
    snprintf(PortNameSize + 1,
             precision(name_limit(ioo, t), legalize_io_name(ioo.name))
             \o "/" \o type_suffix(ioo, t))

build_legal_port_name(ioo, ps, bp, t) ==
    LET buf1 == port_name_base(ioo, t)
        port_number == find_port_hole(ps, bp, buf1)
    IN snprintf(PortNameSize + 1, buf1 \o " " \o ToString(port_number))

\* ----------------------------------------------------------------- bundle
bundle_channel_name_positional(c, n, t, acn) ==
    IF t = "AUDIO" /\ n = 1 THEN "mono"
    ELSE IF t = "AUDIO" /\ n = 2 THEN (IF c = 0 THEN "L" ELSE "R")
    ELSE ToString(c + 1)
bundle_channel_name(c, n, t, acn) ==
    IF t = "AUDIO"
    THEN IF n = Len(acn) /\ c < Len(acn) THEN acn[c + 1]
         ELSE IF n = 1 THEN "mono"
         ELSE IF n = 2 THEN (IF c = 0 THEN "L" ELSE "R")
         ELSE ToString(c + 1)
    ELSE ToString(c + 1)

bundle_channels(ioo, ps, bp, t) ==
    [j \in 1 .. Len(ps[t]) |->
        [name |-> bundle_channel_name(j - 1, Len(ps[t]), t, ioo.acn),
         type |-> t,
         port |-> make_port_name_non_relative(bp[port(ps, t, j - 1)].name)]]

setup_bundle(ioo, ps, bp) ==
    [ioo EXCEPT !.bundle =
        [name |-> ioo.name \o " " \o (IF ioo.direction = "Input" THEN "in" ELSE "out"),
         channels |-> bundle_channels(ioo, ps, bp, "AUDIO")
                      \o bundle_channels(ioo, ps, bp, "MIDI")]]

nchannels(ioo) == Len(ioo.bundle.channels)

RECURSIVE pretty_names(_, _, _, _)
pretty_names(ioo, s, bp, pn) ==
    IF Len(s) = 0 THEN bp
    ELSE pretty_names(ioo, Tail(s),
            [bp EXCEPT ![Head(s)].pretty =
                ioo.pretty \o "/"
                \o (IF ioo.direction = "Output" THEN "Out" ELSE "In")
                \o " " \o ToString(pn)],
            pn + 1)

apply_pretty_name(ioo, ps, bp) ==
    IF ioo.pretty = "" THEN bp ELSE pretty_names(ioo, all_ports(ps), bp, 1)

\* ---------------------------------------------------------------- signals
ObsValues == {-1, 0, 1}
ObsLists == UNION {[1 .. k -> ObsValues] : k \in 0 .. MaxObs}

\* IO::IntBoolCombiner
IntBoolCombiner(results) ==
    IF \E i \in 1 .. Len(results) : results[i] > 0 THEN 1 ELSE 0

\* PortCountChanging (after), r.value_or (0)
PortCountChanging(obs) == IntBoolCombiner(obs)

\* one entry of a call's trace of signals and backend calls
\*   k   what happened              p   the port handle
\*   s   the other port's name      chg the IOChange (changed)
\*   c   the ChanCount argument     n   n_ports () at that moment
\*   lk  the holder of the process lock at that moment
\*   src the src argument handed to the observers of changed (0: none)
Ev(k, p, s, chg, c, n, lk) ==
    [k |-> k, p |-> p, s |-> s, chg |-> chg, c |-> c, n |-> n, lk |-> lk, src |-> 0]

\* ---------------------------------------------------------------- threads
\* an XMLNode: its name, its properties and its children
XMLNode(name, props, children) == [name |-> name, props |-> props, children |-> children]
NoProps == [k \in {} |-> ""]
NoNode == XMLNode("", NoProps, <<>>)
\* what the IO that wrote a node was like
NoOrig == [count |-> ZeroCount, direction |-> "", pretty |-> ""]

IdleThread ==
    [pc |-> "idle", op |-> "none", ret |-> 0, exc |-> FALSE,
     argtype |-> "NIL", type |-> "NIL", dest |-> "", port |-> 0, other |-> "",
     veto_asked |-> FALSE, r |-> 0, count |-> ZeroCount, clear |-> FALSE,
     before |-> ZeroCount, after |-> ZeroCount, change |-> NoIOChange,
     our_port |-> 0, w |-> 0, changed |-> FALSE, ti |-> 1, i |-> 0,
     fail |-> "none", ev |-> <<>>,
     caller |-> "none", node |-> NoNode, orig |-> NoOrig, inp |-> FALSE,
     for_playback |-> FALSE, portname |-> "",
     pre |-> [ps |-> EmptySet, bports |-> <<>>, nch |-> 0, dirty |-> FALSE]]

\* what a call starts from, for the statements about what it changed
Pre == [ps |-> Current, bports |-> bports, nch |-> nchannels(io), dirty |-> dirty]

\* ------------------------------------------------------------------- Init
\* IO::IO (Session&, const string& name, Direction, DataType, bool sendish)
Init ==
    /\ \E ow \in Owners, dir \in {"Input", "Output"} :
         io = setup_bundle(
                 [name |-> legalize_io_name(ow.name), direction |-> dir,
                  default_type |-> ow.default_type, sendish |-> ow.sendish, active |-> TRUE,
                  pretty |-> "", acn |-> <<>>,
                  bundle |-> [name |-> "", channels |-> <<>>]],
                 EmptySet, <<ForeignPort>>)
    /\ rcu = [heap |-> [o \in ObjIds |-> EmptySet], cur |-> CurObj, held |-> 0]
    /\ bports = <<ForeignPort>>
    /\ lock = 0
    /\ dirty = FALSE
    /\ th = [t \in Threads |-> IdleThread]
    /\ rd = [seen |-> EmptySet, committed |-> EmptySet]

\* ---------------------------------------------------------------- helpers
Merge(r, ch) == ch @@ r
Upd(t, ch) == th' = [th EXCEPT ![t] = Merge(@, ch)]
Begin(t, ch) == th' = [th EXCEPT ![t] = Merge(Merge(IdleThread, [pre |-> Pre]), ch)]

\* a writer whose copy is thrown away
PublishNothing(r, o, t) == r
\* end of the RCUWriter's scope in thread t: the copy is published
Publish(r, o, t) == update(r, o)

Sig(k, chg, c, ps, lk) == Ev(k, 0, "", chg, c, count(ps), lk)
Call(k, p, s, ps, lk) == Ev(k, p, s, NoIOChange, ZeroCount, count(ps), lk)
\* changed (change, src)
Changed(chg, src, ps, lk) == [Sig("changed", chg, ZeroCount, ps, lk) EXCEPT !.src = src]
\* void* src: the caller names itself
caller_src(t) == t

\* a mutex that lets everybody in
acquire_unheld(l) == TRUE
\* BLOCK_PROCESS_CALLBACK (), Glib::Threads::Mutex::Lock lm (process_lock ()):
\* the caller goes on when nobody holds the process lock
acquire(l) == l = 0

\* a scope that is left with the mutex still held
scope_exit_held(t) == t
\* the scope of BLOCK_PROCESS_CALLBACK () ends, by return, by exception or at
\* its closing brace: the Lock object releases the process lock
scope_exit(t) == 0

LivePorts == {p \in 1 .. Len(bports) : bports[p].unreg = 0}
CanRegister == Len(bports) - 1 < MaxPorts
RegOutcomes == {"ok", "null", "throw"}

register_port_swapped(ioo, bp, t, name) ==
    IF ioo.direction = "Input"
    THEN register_output_port(bp, t, name)
    ELSE register_input_port(bp, t, name)
\* _session.engine().register_input_port / register_output_port, by _direction
register_port(ioo, bp, t, name) ==
    IF ioo.direction = "Input"
    THEN register_input_port(bp, t, name)
    ELSE register_output_port(bp, t, name)

\* ------------------------------------------------------------- add_port
can_add_port_nocap(ps, t) == t # "NIL"
can_add_port(ps, t) ==
    CASE t = "NIL" -> FALSE
      [] t = "AUDIO" -> TRUE
      [] t = "MIDI" -> count(ps)["MIDI"] < MidiPortCap

\* add_port: the type defaults, the cardinality rule
AddCall(t) ==
    /\ th[t].pc = "idle"
    /\ \E ty \in Types \cup {"NIL"}, dest \in OtherNames :
         LET type == IF ty = "NIL" THEN io.default_type ELSE ty
             args == [op |-> "add_port", argtype |-> ty, type |-> type, dest |-> dest]
         IN IF ~can_add_port(Current, type)
            THEN Begin(t, Merge(args, [pc |-> "done", ret |-> -1]))
            ELSE Begin(t, Merge(args, [pc |-> "add_changing"]))
    /\ UNCHANGED <<io, rcu, bports, lock, dirty, rd>>

\* add_port: before, after, PortCountChanging (after)
AddChanging(t) ==
    /\ th[t].pc = "add_changing"
    /\ \E obs \in ObsLists :
         LET before == count(Current)
             after == [before EXCEPT ![th[t].type] = @ + 1]
             r == PortCountChanging(obs)
         IN Upd(t, [before |-> before, after |-> after,
                    veto_asked |-> \E i \in 1 .. Len(obs) : obs[i] # 0, r |-> r,
                    ev |-> Append(th[t].ev,
                             Sig("PortCountChanging", NoIOChange, after, Current, lock)),
                    pc |-> IF r # 0 THEN "done" ELSE "add_lock",
                    ret |-> IF r # 0 THEN -1 ELSE 0])
    /\ UNCHANGED <<io, rcu, bports, lock, dirty, rd>>

\* add_port: BLOCK_PROCESS_CALLBACK, the writer's copy, the registration, p->add
AddLock(t) ==
    /\ th[t].pc = "add_lock"
    /\ acquire(lock)
    /\ CanRegister
    /\ \E out \in RegOutcomes :
         LET wc == writer_copy(rcu, CopyObj(t))
             p == wc.heap[wc.obj]
             portname == build_legal_port_name(io, p, bports, th[t].type)
             bp1 == register_port(io, bports, th[t].type, portname)
             our == Len(bp1)
             p1 == add(p, our, th[t].type)
             e0 == Append(th[t].ev, Call("lock", 0, "", Current, t))
         IN IF out = "ok"
            THEN /\ bports' = bp1
                 /\ rcu' = [rcu EXCEPT !.heap = [wc.heap EXCEPT ![wc.obj] = p1]]
                 /\ lock' = t
                 /\ rd' = rd
                 /\ Upd(t, [w |-> wc.obj, our_port |-> our,
                            change |-> [type |-> {}, before |-> count(p),
                                        after |-> count(p1)],
                            ev |-> Append(e0, Call("register", our, portname, Current, t)),
                            pc |-> "add_commit"])
            ELSE \* return -1, or the exception, leaves both scopes: the
                 \* writer publishes its copy and the lock is released
                 /\ bports' = bports
                 /\ rcu' = Publish([rcu EXCEPT !.heap = wc.heap], wc.obj, t)
                 /\ rd' = [rd EXCEPT !.committed = p]
                 /\ lock' = scope_exit(t)
                 /\ Upd(t, [fail |-> out, exc |-> (out = "throw"), ret |-> -1,
                            ev |-> e0 \o <<Call("register_failed", 0, portname, Current, t),
                                           Call("unlock", 0, "", p, t)>>,
                            pc |-> "done"])
    /\ UNCHANGED <<io, dirty>>

add_signals_unlocked(ps, chg, src, lk) ==
    <<Call("unlock", 0, "", ps, lk),
      Sig("PortCountChanged", NoIOChange, count(ps), ps, 0),
      Changed(chg, src, ps, 0)>>
add_signals_changed_first(ps, chg, src, lk) ==
    <<Changed(chg, src, ps, lk),
      Sig("PortCountChanged", NoIOChange, count(ps), ps, lk),
      Call("unlock", 0, "", ps, lk)>>
\* add_port: PortCountChanged (n_ports ()), changed (change, src), inside
\* the scope of BLOCK_PROCESS_CALLBACK
add_signals(ps, chg, src, lk) ==
    <<Sig("PortCountChanged", NoIOChange, count(ps), ps, lk),
      Changed(chg, src, ps, lk),
      Call("unlock", 0, "", ps, lk)>>

\* add_port: end of the writer's scope, PortCountChanged, changed, end of the lock's scope
AddCommit(t) ==
    /\ th[t].pc = "add_commit"
    /\ LET r1 == Publish(rcu, th[t].w, t)
           ps == r1.heap[r1.cur]
           chg == [th[t].change EXCEPT !.type = {"ConfigurationChanged"}]
       IN /\ rcu' = r1
          /\ rd' = [rd EXCEPT !.committed = rcu.heap[th[t].w]]
          /\ lock' = scope_exit(t)
          /\ Upd(t, [w |-> 0, change |-> chg,
                     ev |-> th[t].ev \o add_signals(ps, chg, caller_src(t), lock),
                     pc |-> "add_post"])
    /\ UNCHANGED <<io, bports, dirty>>

\* add_port: our_port->connect (destination), apply_pretty_name, setup_bundle, set_dirty
AddPost(t) ==
    /\ th[t].pc = "add_post"
    /\ \E ok \in (IF th[t].dest = "" THEN {TRUE}
                  ELSE IF bports[th[t].our_port].unreg = 0 THEN BOOLEAN ELSE {FALSE}) :
         IF ~ok
         THEN /\ Upd(t, [ret |-> -1, pc |-> "done",
                         ev |-> Append(th[t].ev,
                                  Call("connect_failed", th[t].our_port, th[t].dest,
                                       Current, lock))])
              /\ UNCHANGED <<io, bports, dirty>>
         ELSE LET bp1 == IF th[t].dest = "" THEN bports
                         ELSE port_connect(bports, th[t].our_port, th[t].dest)
                  e1 == IF th[t].dest = "" THEN th[t].ev
                        ELSE Append(th[t].ev,
                               Call("connect", th[t].our_port, th[t].dest, Current, lock))
                  bp2 == apply_pretty_name(io, Current, bp1)
              IN /\ bports' = bp2
                 /\ io' = setup_bundle(io, Current, bp2)
                 /\ dirty' = TRUE
                 /\ Upd(t, [ret |-> 0, pc |-> "done",
                            ev |-> e1 \o <<Call("setup_bundle", 0, "", Current, lock),
                                           Call("set_dirty", 0, "", Current, lock)>>])
    /\ UNCHANGED <<rcu, lock, rd>>

\* ---------------------------------------------------------- remove_port
\* remove_port: before, after, PortCountChanging (after)
RemoveCall(t) ==
    /\ th[t].pc = "idle"
    /\ \E port_ \in LivePorts, obs \in ObsLists :
         LET before == count(Current)
             ty == bports[port_].type
             \* uint32_t: with no port of that type this wraps to 2^32 - 1,
             \* written -1 here; the value only goes to the observers
             after == [before EXCEPT ![ty] = @ - 1]
             r == PortCountChanging(obs)
         IN Begin(t, [op |-> "remove_port", port |-> port_, type |-> ty,
                      before |-> before, after |-> after,
                      veto_asked |-> \E i \in 1 .. Len(obs) : obs[i] # 0, r |-> r,
                      ev |-> <<Sig("PortCountChanging", NoIOChange, after, Current, lock)>>,
                      pc |-> IF r # 0 THEN "done" ELSE "rem_lock",
                      ret |-> IF r # 0 THEN -1 ELSE 0])
    /\ UNCHANGED <<io, rcu, bports, lock, dirty, rd>>

remove_change_unconnected(found, p1, bp, port_, before) ==
    IF found
    THEN [type |-> {"ConfigurationChanged"}, before |-> before, after |-> count(p1)]
    ELSE NoIOChange
\* remove_port: if (p->remove (port)) { change.type ... port->connected () ... }
remove_change(found, p1, bp, port_, before) ==
    IF found
    THEN [type |-> {"ConfigurationChanged"}
                   \cup (IF connected(bp, port_) THEN {"ConnectionsChanged"} ELSE {}),
          before |-> before, after |-> count(p1)]
    ELSE NoIOChange

\* remove_port: BLOCK_PROCESS_CALLBACK, the writer's copy, p->remove, unregister_port
RemoveLock(t) ==
    /\ th[t].pc = "rem_lock"
    /\ acquire(lock)
    /\ LET wc == writer_copy(rcu, CopyObj(t))
           p == wc.heap[wc.obj]
           port_ == th[t].port
           found == contains(p, port_)
           p1 == remove(p, port_)
           chg == remove_change(found, p1, bports, port_, th[t].before)
       IN /\ rcu' = [rcu EXCEPT !.heap = [wc.heap EXCEPT ![wc.obj] = p1]]
          /\ bports' = unregister_port(bports, port_)
          /\ lock' = t
          /\ Upd(t, [w |-> wc.obj, change |-> chg,
                     ev |-> th[t].ev \o <<Call("lock", 0, "", Current, t),
                                          Call("unregister", port_, "", Current, t)>>,
                     pc |-> "rem_commit"])
    /\ UNCHANGED <<io, dirty, rd>>

\* remove_port: end of the writer's scope, PortCountChanged, changed, end of the lock's scope
RemoveCommit(t) ==
    /\ th[t].pc = "rem_commit"
    /\ LET r1 == Publish(rcu, th[t].w, t)
           ps == r1.heap[r1.cur]
           e1 == Append(th[t].ev,
                        Sig("PortCountChanged", NoIOChange, count(ps), ps, lock))
           e2 == IF th[t].change.type # {}
                 THEN Append(e1, Changed(th[t].change, caller_src(t), ps, lock))
                 ELSE e1
       IN /\ rcu' = r1
          /\ rd' = [rd EXCEPT !.committed = rcu.heap[th[t].w]]
          /\ lock' = scope_exit(t)
          /\ Upd(t, [w |-> 0, ev |-> Append(e2, Call("unlock", 0, "", ps, lock)),
                     pc |-> "rem_post"])
    /\ UNCHANGED <<io, bports, dirty>>

\* remove_port: setup_bundle, the NoChange result, set_dirty
RemovePost(t) ==
    /\ th[t].pc = "rem_post"
    /\ LET conf == "ConfigurationChanged" \in th[t].change.type
           e1 == IF conf
                 THEN Append(th[t].ev, Call("setup_bundle", 0, "", Current, lock))
                 ELSE th[t].ev
       IN /\ io' = IF conf THEN setup_bundle(io, Current, bports) ELSE io
          /\ IF th[t].change.type = {}
             THEN /\ Upd(t, [ret |-> -1, ev |-> e1, pc |-> "done"])
                  /\ dirty' = dirty
             ELSE /\ Upd(t, [ret |-> 0, pc |-> "done",
                             ev |-> Append(e1, Call("set_dirty", 0, "", Current, lock))])
                  /\ dirty' = TRUE
    /\ UNCHANGED <<rcu, bports, lock, rd>>

\* ---------------------------------------------------------- ensure_ports
RECURSIVE disconnect_ports(_, _)
\* for (auto const& p : *ports ()) p->disconnect_all ()
disconnect_ports(bp, s) ==
    IF Len(s) = 0 THEN bp ELSE disconnect_ports(disconnect_all(bp, Head(s)), Tail(s))

ensure_early_return_same_count(cnt, ps, clear) == cnt = count(ps)
ensure_early_return_total(cnt, ps, clear) == n_total(cnt) = num_ports(ps) /\ ~clear
\* ensure_ports: count == n_ports() && !clear
ensure_early_return(cnt, ps, clear) == cnt = count(ps) /\ ~clear

\* ensure_ports_locked: for (size_t i = n_ports.get (*t); i > n; --i)
shrink_more(i, n) == i > n

shrink_port_lowest(p, ty, i) == port(p, ty, 0)
\* ensure_ports_locked: port = p->port (*t, i-1)
shrink_port(p, ty, i) == port(p, ty, i - 1)

grow_more_through(p, ty, n) == count(p)[ty] <= n
\* ensure_ports_locked: while (p->count ().get(*t) < n)
grow_more(p, ty, n) == count(p)[ty] < n

\* const ChanCount n_ports = p->count (); i = n_ports.get (*t)
loop_start(p, ti) == IF ti > Len(TypeSeq) THEN 0 ELSE count(p)[TypeSeq[ti]]

\* ensure_ports_locked: neither loop has a pass left for the type
type_done(p, cnt, ti, i) ==
    ~shrink_more(i, cnt[TypeSeq[ti]]) /\ ~grow_more(p, TypeSeq[ti], cnt[TypeSeq[ti]])

\* ensure_ports_locked: the data type the loops work on next, from type
\* number ti on: the first one with a pass left (Len(TypeSeq) + 1: none)
RECURSIVE next_type(_, _, _)
next_type(p, cnt, ti) ==
    IF ti > Len(TypeSeq) THEN ti
    ELSE IF ~type_done(p, cnt, ti, loop_start(p, ti)) THEN ti
    ELSE next_type(p, cnt, ti + 1)

\* where the loops stand after a pass that left copy p and loop variable i
next_pos(p, cnt, ti, i) ==
    IF ~type_done(p, cnt, ti, i) THEN [ti |-> ti, i |-> i]
    ELSE [ti |-> next_type(p, cnt, ti + 1),
          i |-> loop_start(p, next_type(p, cnt, ti + 1))]

unregister_removed_never(bp, port_) == bp
\* ensure_ports_locked: _session.engine().unregister_port (port)
unregister_removed(bp, port_) == unregister_port(bp, port_)

commit_unless_failed(r, o, failed) ==
    IF failed # "none" THEN [r EXCEPT !.heap[o] = EmptySet] ELSE update(r, o)
\* ensure_ports_locked: the RCUWriter goes out of scope at return -1, at the
\* exception and at the end of its block alike
commit_on_exit(r, o, failed) == update(r, o)

\* where ensure_ports returns to: its caller in this model's trace, or
\* create_ports when set_state called it
ensure_returns_to(t) == IF th[t].caller = "none" THEN "done" ELSE "created"

\* End of the writer's scope in ensure_ports_locked (also on return -1 and on
\* the exception), its PortCountChanged and clear, then the rest of
\* ensure_ports and the caller's release of the lock.
EnsureFinish(t, failed, ev0) ==
    LET r1 == commit_on_exit(rcu, th[t].w, failed)
        ps == r1.heap[r1.cur]
        ch == th[t].changed
        e1 == IF ch
              THEN ev0 \o <<Sig("PortCountChanged", NoIOChange, count(ps), ps, lock),
                            Call("set_dirty", 0, "", ps, lock)>>
              ELSE ev0
        bp1 == IF th[t].clear THEN disconnect_ports(bports, all_ports(ps)) ELSE bports
        e2 == IF th[t].clear
              THEN Append(e1, Call("disconnect_all", 0, "", ps, lock))
              ELSE e1
        chg == [type |-> {"ConfigurationChanged"}, before |-> th[t].change.before,
                after |-> count(ps)]
        e3 == IF ch
              THEN e2 \o <<Changed(chg, caller_src(t), ps, lock),
                           Call("setup_bundle", 0, "", ps, lock),
                           Call("set_dirty", 0, "", ps, lock)>>
              ELSE e2
    IN /\ rcu' = r1
       /\ rd' = [rd EXCEPT !.committed = rcu.heap[th[t].w]]
       /\ lock' = scope_exit(t)
       /\ IF failed # "none"
          THEN /\ Upd(t, [w |-> 0, ret |-> -1, pc |-> ensure_returns_to(t), fail |-> failed,
                          exc |-> (failed = "throw"),
                          ev |-> Append(ev0, Call("unlock", 0, "", ps, lock))])
               /\ UNCHANGED <<io, bports, dirty>>
          ELSE /\ bports' = bp1
               /\ io' = IF ch THEN setup_bundle(io, ps, bp1) ELSE io
               /\ dirty' = (dirty \/ ch)
               /\ Upd(t, [w |-> 0, ret |-> 0, pc |-> ensure_returns_to(t),
                          change |-> IF ch THEN chg ELSE th[t].change,
                          ev |-> Append(e3, Call("unlock", 0, "", ps, lock))])

\* The caller takes the process lock (as create_ports and set_ports do) and
\* calls ensure_ports; ensure_ports_locked obtains the writer's copy.
EnsureCall(t) ==
    /\ th[t].pc = "idle"
    /\ acquire(lock)
    /\ \E cnt \in [Types -> 0 .. MaxCount], clear \in BOOLEAN :
         LET args == [op |-> "ensure_ports", count |-> cnt, clear |-> clear]
             e0 == <<Call("lock", 0, "", Current, t)>>
         IN IF ensure_early_return(cnt, Current, clear)
            THEN /\ Begin(t, Merge(args,
                        [ret |-> 0, pc |-> "done",
                         ev |-> Append(e0, Call("unlock", 0, "", Current, t))]))
                 /\ UNCHANGED <<rcu, lock>>
            ELSE LET wc == writer_copy(rcu, CopyObj(t))
                     ti == next_type(wc.heap[wc.obj], cnt, 1)
                 IN /\ rcu' = [rcu EXCEPT !.heap = wc.heap]
                    /\ lock' = t
                    /\ Begin(t, Merge(args,
                          [w |-> wc.obj, changed |-> FALSE, ti |-> ti,
                           i |-> loop_start(wc.heap[wc.obj], ti),
                           change |-> [NoIOChange EXCEPT !.before = count(Current)],
                           ev |-> e0, pc |-> "ens_loop"]))
    /\ UNCHANGED <<io, bports, dirty, rd>>

\* ensure_ports_locked: one pass of the loop that removes unused ports
EnsureShrink(t) ==
    /\ th[t].pc = "ens_loop"
    /\ th[t].ti <= Len(TypeSeq)
    /\ shrink_more(th[t].i, th[t].count[TypeSeq[th[t].ti]])
    /\ LET ty == TypeSeq[th[t].ti]
           p == rcu.heap[th[t].w]
           port_ == shrink_port(p, ty, th[t].i)
           p1 == remove(p, port_)
           pos == next_pos(p1, th[t].count, th[t].ti, th[t].i - 1)
       IN /\ rcu' = [rcu EXCEPT !.heap[th[t].w] = p1]
          /\ bports' = unregister_removed(bports, port_)
          /\ Upd(t, [i |-> pos.i, ti |-> pos.ti, changed |-> TRUE,
                     ev |-> Append(th[t].ev, Call("unregister", port_, "", Current, lock))])
    /\ UNCHANGED <<io, lock, dirty, rd>>

\* ensure_ports_locked: one pass of the loop that creates new ports
EnsureGrow(t) ==
    /\ th[t].pc = "ens_loop"
    /\ th[t].ti <= Len(TypeSeq)
    /\ ~shrink_more(th[t].i, th[t].count[TypeSeq[th[t].ti]])
    /\ grow_more(rcu.heap[th[t].w], TypeSeq[th[t].ti], th[t].count[TypeSeq[th[t].ti]])
    /\ CanRegister
    /\ \E out \in RegOutcomes :
         LET ty == TypeSeq[th[t].ti]
             p == rcu.heap[th[t].w]
             portname == build_legal_port_name(io, p, bports, ty)
             bp1 == register_port(io, bports, ty, portname)
             port_ == Len(bp1)
             p1 == add(p, port_, ty)
             pos == next_pos(p1, th[t].count, th[t].ti, th[t].i)
         IN IF out = "ok"
            THEN /\ bports' = bp1
                 /\ rcu' = [rcu EXCEPT !.heap[th[t].w] = p1]
                 /\ Upd(t, [changed |-> TRUE, ti |-> pos.ti, i |-> pos.i,
                            ev |-> Append(th[t].ev,
                                     Call("register", port_, portname, Current, lock))])
                 /\ UNCHANGED <<io, lock, dirty, rd>>
            ELSE EnsureFinish(t, out,
                    Append(th[t].ev, Call("register_failed", 0, portname, Current, lock)))

\* ensure_ports_locked: the loop is over
EnsureCommit(t) ==
    /\ th[t].pc = "ens_loop"
    /\ th[t].ti > Len(TypeSeq)
    /\ EnsureFinish(t, "none", th[t].ev)

\* ----------------------------------------------------- connect, disconnect
\* our_port == 0 is the null handle
PortArgs == 0 .. Len(bports)

\* other_port.length() == 0 || our_port == 0
nothing_to_do(our, other) == Len(other) = 0 \/ our = 0

is_ours_unchecked(ps, our) == TRUE
\* check that our_port is really one of ours: ports()->contains (our_port)
is_ours(ps, our) == contains(ps, our)

connected_unsignalled(our, other, src, ps, lk) ==
    <<Call("connect", our, other, ps, lk), Call("set_dirty", 0, "", ps, lk)>>
\* connect: our_port->connect (other_port) gave 0: changed, set_dirty
connected_signals(our, other, src, ps, lk) ==
    <<Call("connect", our, other, ps, lk),
      Changed([NoIOChange EXCEPT !.type = {"ConnectionsChanged"}], src, ps, lk),
      Call("set_dirty", 0, "", ps, lk)>>

\* disconnect: our_port->disconnect (other_port) gave 0: changed, set_dirty
disconnected_signals(our, other, src, ps, lk) ==
    <<Call("disconnect", our, other, ps, lk),
      Changed([NoIOChange EXCEPT !.type = {"ConnectionsChanged"}], src, ps, lk),
      Call("set_dirty", 0, "", ps, lk)>>

\* IO::connect (our_port, other_port, src)
Connect(t) ==
    /\ th[t].pc = "idle"
    /\ \E our \in PortArgs, other \in OtherNames, ok \in BOOLEAN :
         LET args == [op |-> "connect", port |-> our, other |-> other, pc |-> "done"]
         IN IF nothing_to_do(our, other)
            THEN /\ ok
                 /\ Begin(t, Merge(args, [ret |-> 0]))
                 /\ UNCHANGED <<bports, dirty>>
            ELSE IF ~is_ours(Current, our)
            THEN /\ ok
                 /\ Begin(t, Merge(args, [ret |-> -1]))
                 /\ UNCHANGED <<bports, dirty>>
            ELSE IF ~ok \/ bports[our].unreg # 0
            THEN /\ Begin(t, Merge(args,
                        [ret |-> -1,
                         ev |-> <<Call("connect_failed", our, other, Current, lock)>>]))
                 /\ UNCHANGED <<bports, dirty>>
            ELSE /\ bports' = port_connect(bports, our, other)
                 /\ dirty' = TRUE
                 /\ Begin(t, Merge(args,
                        [ret |-> 0,
                         ev |-> connected_signals(our, other, caller_src(t),
                                                  Current, lock)]))
    /\ UNCHANGED <<io, rcu, lock, rd>>

\* IO::disconnect (our_port, other_port, src)
Disconnect(t) ==
    /\ th[t].pc = "idle"
    /\ \E our \in PortArgs, other \in OtherNames, ok \in BOOLEAN :
         LET args == [op |-> "disconnect", port |-> our, other |-> other, pc |-> "done"]
         IN IF nothing_to_do(our, other)
            THEN /\ ok
                 /\ Begin(t, Merge(args, [ret |-> 0]))
                 /\ UNCHANGED <<bports, dirty>>
            ELSE IF ~is_ours(Current, our)
            THEN /\ ok
                 /\ Begin(t, Merge(args, [ret |-> -1]))
                 /\ UNCHANGED <<bports, dirty>>
            ELSE IF ~ok \/ bports[our].unreg # 0
            THEN /\ Begin(t, Merge(args,
                        [ret |-> -1,
                         ev |-> <<Call("disconnect_failed", our, other, Current, lock)>>]))
                 /\ UNCHANGED <<bports, dirty>>
            ELSE /\ bports' = port_disconnect(bports, our, other)
                 /\ dirty' = TRUE
                 /\ Begin(t, Merge(args,
                        [ret |-> 0,
                         ev |-> disconnected_signals(our, other, caller_src(t),
                                                     Current, lock)]))
    /\ UNCHANGED <<io, rcu, lock, rd>>

\* ---------------------------------------------------------------- ~IO
destroy_ports_left(bp, s) == bp
RECURSIVE destroy_ports(_, _)
\* for (auto const& p : *ports()) _session.engine().unregister_port (p)
destroy_ports(bp, s) ==
    IF Len(s) = 0 THEN bp ELSE destroy_ports(unregister_port(bp, Head(s)), Tail(s))

\* the unregister calls of the destructor, in the order of the ports
destroy_calls(s, ps, lk) == [n \in 1 .. Len(s) |-> Call("unregister", s[n], "", ps, lk)]

\* IO::~IO (): under BLOCK_PROCESS_CALLBACK every port is unregistered; then
\* the members go, the RCU manager with its PortSet among them
Destroy(t) ==
    /\ th[t].pc = "idle"
    /\ \A u \in Threads : th[u].pc = "idle"
    /\ acquire(lock)
    /\ bports' = destroy_ports(bports, all_ports(Current))
    /\ rcu' = [rcu EXCEPT !.heap[rcu.cur] = EmptySet]
    /\ rd' = [rd EXCEPT !.committed = EmptySet]
    /\ Begin(t, [op |-> "~IO", pc |-> "gone",
                 ev |-> <<Call("lock", 0, "", Current, t)>>
                        \o destroy_calls(all_ports(Current), Current, t)
                        \o <<Call("unlock", 0, "", Current, t)>>])
    /\ UNCHANGED <<io, lock, dirty>>

\* ------------------------------------------------- set_audio_channel_names
\* the lists of names a caller assigns
ChannelNameLists == {<<>>, <<"one">>, <<"left", "right">>, <<"a", "b", "c">>}

\* IO::set_audio_channel_names (acn)
SetAudioChannelNames(t) ==
    /\ th[t].pc = "idle"
    /\ \E acn \in ChannelNameLists : io' = [io EXCEPT !.acn = acn]
    /\ UNCHANGED <<rcu, bports, lock, dirty, th, rd>>

\* ---------------------------------------------------------- pretty name
\* the prefixes a caller sets
PrettyNames == {"", "Mix"}

\* IO::set_pretty_name (str)
set_pretty_name(ioo, ps, bp, str) ==
    IF ioo.pretty = str THEN [io |-> ioo, bports |-> bp]
    ELSE LET io1 == [ioo EXCEPT !.pretty = str]
         IN [io |-> io1, bports |-> apply_pretty_name(io1, ps, bp)]

SetPrettyName(t) ==
    /\ th[t].pc = "idle"
    /\ \E str \in PrettyNames :
         LET r == set_pretty_name(io, Current, bports, str)
         IN /\ io' = r.io
            /\ bports' = r.bports
    /\ UNCHANGED <<rcu, lock, dirty, th, rd>>

\* ------------------------------------------------------------------- name
\* set_name's loop over the ports: the first _name in a port's name is replaced
RECURSIVE rename_ports(_, _, _, _)
rename_ports(bp, s, old, name) ==
    IF Len(s) = 0 THEN bp
    ELSE LET current_name == bp[Head(s)].name
             at == find(current_name, old, 0)
         IN rename_ports(
                [bp EXCEPT ![Head(s)].name =
                    IF at = npos THEN current_name
                    ELSE replace(current_name, at, Len(old), name)],
                Tail(s), old, name)

\* IO::set_name (requested_name)
set_name(ioo, ps, bp, requested_name) ==
    IF ioo.name = requested_name THEN [io |-> ioo, bports |-> bp]
    ELSE LET name == legalize_io_name(requested_name)
             bp1 == rename_ports(bp, all_ports(ps), ioo.name, name)
         IN [io |-> setup_bundle([ioo EXCEPT !.name = name], ps, bp1), bports |-> bp1]

\* ------------------------------------------------------------------ state
\* enum_2_string of a DataType, as a Port writes its type
type_string(ty) == IF ty = "AUDIO" THEN "audio" ELSE IF ty = "MIDI" THEN "midi" ELSE ""

\* Port::get_state (): a node "Port" with the port's name and type
Port_get_state(p) ==
    XMLNode("Port", ("name" :> p.name) @@ ("type" :> type_string(p.type)), <<>>)

\* IO::state ()
state(ioo, ps, bp) ==
    XMLNode("IO",
        ("name" :> ioo.name) @@ ("direction" :> ioo.direction)
        @@ ("default-type" :> ioo.default_type)
        @@ (IF ioo.pretty # "" THEN "pretty-name" :> ioo.pretty ELSE NoProps),
        [i \in 1 .. num_ports(ps) |-> Port_get_state(bp[all_ports(ps)[i]])])

\* XMLNode::property (name) != 0
has_property(node, k) == k \in DOMAIN node.props

incorrect_node_accepted(node) == FALSE
\* node.name () != state_node_name
incorrect_node(node) == node.name # "IO"

\* ChanCount::max
ChanCount_max(a, b) == [t \in Types |-> IF a[t] < b[t] THEN b[t] ELSE a[t]]

\* the children named "Port" whose type property is ts
port_children(node, ts) ==
    {i \in 1 .. Len(node.children) :
        /\ node.children[i].name = "Port"
        /\ has_property(node.children[i], "type")
        /\ node.children[i].props["type"] = ts}

get_port_counts_declared(node, ps) ==
    [AUDIO |-> Cardinality(port_children(node, "audio")),
     MIDI |-> Cardinality(port_children(node, "midi"))]
get_port_counts_audio(node, ps) ==
    ChanCount_max(count(ps),
        [ZeroCount EXCEPT !["AUDIO"] = Cardinality(port_children(node, "audio"))])
\* IO::get_port_counts for version >= 3000, of a node without a bundle
get_port_counts(node, ps) ==
    ChanCount_max(count(ps),
        [AUDIO |-> Cardinality(port_children(node, "audio")),
         MIDI |-> Cardinality(port_children(node, "midi"))])

\* ------------------------------------------------------- the 2.X format
\* std::count (str.begin (), str.end (), ch)
RECURSIVE count_char(_, _)
count_char(str, ch) ==
    IF Len(str) = 0 THEN 0
    ELSE (IF SubSeq(str, 1, 1) = ch THEN 1 ELSE 0) + count_char(SubSeq(str, 2, Len(str)), ch)

\* IO::get_port_counts_2X: n_audio is assigned in a loop over the node's
\* children; create_ports hands it an empty ChanCount
get_port_counts_2X(node, ioo) ==
    LET n_audio ==
            IF Len(node.children) = 0 THEN 0
            ELSE IF has_property(node, "inputs") /\ ioo.direction = "Input"
            THEN count_char(node.props["inputs"], "{")
            ELSE IF has_property(node, "input-connection") /\ ioo.direction = "Input"
            THEN 1
            ELSE IF has_property(node, "outputs") /\ ioo.direction = "Output"
            THEN count_char(node.props["outputs"], "{")
            ELSE IF has_property(node, "output-connection") /\ ioo.direction = "Output"
            THEN 2
            ELSE 0
    IN ChanCount_max(ZeroCount, [ZeroCount EXCEPT !["AUDIO"] = n_audio])

\* parse_io_string's loop over the commas
RECURSIVE split_commas(_, _, _)
split_commas(str, opos, ports) ==
    LET pos == find(str, ",", opos)
    IN IF pos # npos
       THEN split_commas(str, pos + 1, Append(ports, substr(str, opos, pos - opos)))
       ELSE IF opos < Len(str)
       THEN Append(ports, substr(str, opos, Len(str) - opos))
       ELSE ports

\* IO::parse_io_string (str, ports)
parse_io_string(str, ports) ==
    IF Len(str) = 0 THEN [n |-> 0, ports |-> ports]
    ELSE LET r == split_commas(str, 0, <<>>)
         IN [n |-> Len(r), ports |-> r]

\* the name set_port_state_2X connects to: the first "/out" of an input's
\* peer becomes "/audio_out", the first "/in" of an output's "/audio_in"
audio_port_name(name, in) ==
    LET old == IF in THEN "/out" ELSE "/in"
        p == find(name, old, 0)
    IN IF p # npos
       THEN replace(name, p, Len(old), IF in THEN "/audio_out" ELSE "/audio_in")
       ELSE name

\* IO::nth (n): 0 stands for the empty pointer
nth(ps, n) == IF n < num_ports(ps) THEN all_ports(ps)[n + 1] ELSE 0

\* set_port_state_2X's loop over the x names of one group: Port::connect,
\* whose result is not looked at; the backend refuses the names in refused
RECURSIVE connect_names(_, _, _, _, _, _, _)
connect_names(r, names, x, port_, in, refused, ps) ==
    IF x > Len(names) THEN r
    ELSE LET name == audio_port_name(names[x], in)
             did == port_ # 0 /\ name \notin refused
         IN connect_names(
                [bports |-> IF did THEN port_connect(r.bports, port_, name) ELSE r.bports,
                 ev |-> IF port_ = 0 THEN r.ev
                        ELSE Append(r.ev, Call(IF did THEN "connect" ELSE "connect_failed",
                                               port_, name, ps, 0))],
                names, x + 1, port_, in, refused, ps)

\* set_port_state_2X's loop over the brace groups of str
RECURSIVE connect_groups(_, _, _, _, _, _, _, _)
connect_groups(r, str, ostart, i, ports, in, refused, ps) ==
    LET start == find(str, "{", ostart)
        end == find(str, "}", start + 1)
        parsed == parse_io_string(substr(str, start + 1, end - (start + 1)), ports)
    IN IF start = npos THEN [ret |-> 0, bports |-> r.bports, ev |-> r.ev]
       ELSE IF end = npos THEN [ret |-> -1, bports |-> r.bports, ev |-> r.ev]
       ELSE connect_groups(
                IF parsed.n > 0
                THEN connect_names(r, SubSeq(parsed.ports, 1, parsed.n), 1, nth(ps, i),
                                   in, refused, ps)
                ELSE r,
                str, end + 1, i + 1, parsed.ports, in, refused, ps)

\* IO::set_port_state_2X (node, version, in)
set_port_state_2X(node, in, ps, bp, ev, refused) ==
    LET k == IF in THEN "inputs" ELSE "outputs"
    IN IF has_property(node, k)
       THEN connect_groups([bports |-> bp, ev |-> ev], node.props[k], 0, 0, <<>>,
                           in, refused, ps)
       ELSE [ret |-> 0, bports |-> bp, ev |-> ev]

\* the peers a 2.X session names, and the groups of an inputs or outputs string
LegacyGroups ==
    {<<>>, <<<<"p1">>>>, <<<<"p1">>, <<"p2", "p3">>>>, <<<<>>, <<"p1">>>>,
     <<<<"s/out1">>>>, <<<<"s/in1", "p2">>>>}
LegacyPeers == {"p1", "p2", "p3", "s/out1", "s/in1", "s/audio_out1", "s/audio_in1"}

\* what the backend refuses to connect to: nothing, or one of the peers
Refusals == {{}} \cup {{n} : n \in LegacyPeers}

\* names joined by commas
RECURSIVE join(_, _)
join(names, sep) ==
    IF Len(names) = 0 THEN ""
    ELSE IF Len(names) = 1 THEN names[1]
    ELSE names[1] \o sep \o join(Tail(names), sep)

\* the string a 2.X session holds for groups: "{p1},{p2,p3}"
braces(groups) == join([g \in 1 .. Len(groups) |-> "{" \o join(groups[g], ",") \o "}"], ",")

\* the 2.X nodes: inputs, outputs or both, with and without child nodes
LegacyStrings == {braces(g) : g \in LegacyGroups} \cup {"{p1"}
LegacyNodes ==
    {XMLNode("IO", props, children) :
        props \in {("inputs" :> a) : a \in LegacyStrings}
                  \cup {("outputs" :> a) : a \in LegacyStrings}
                  \cup {("inputs" :> "{p1},{p2,p3}") @@ ("outputs" :> "{p1}")},
        children \in {<<>>, <<XMLNode("Panner", NoProps, <<>>)>>}}
    \cup {XMLNode("Route", ("inputs" :> "{p1}") @@ ("outputs" :> "{p1}"),
                  <<XMLNode("Panner", NoProps, <<>>)>>)}

\* IO::set_state_2X (node, version, in) as far as its call of create_ports
SetState2X(t) ==
    /\ th[t].pc = "idle"
    /\ \E node \in LegacyNodes, in \in BOOLEAN :
         LET args == [op |-> "set_state_2X", caller |-> "set_state_2X",
                      node |-> node, inp |-> in]
             io1 == IF has_property(node, "name")
                    THEN set_name(io, Current, bports, node.props["name"])
                    ELSE [io |-> io, bports |-> bports]
             io2 == IF has_property(node, "default-type")
                    THEN [io1.io EXCEPT !.default_type = node.props["default-type"]]
                    ELSE io1.io
         IN IF incorrect_node(node)
            THEN /\ Begin(t, Merge(args, [ret |-> -1, pc |-> "done"]))
                 /\ UNCHANGED <<io, bports>>
            ELSE /\ io' = [io2 EXCEPT !.direction = IF in THEN "Input" ELSE "Output"]
                 /\ bports' = io1.bports
                 /\ Begin(t, Merge(args, [pc |-> "create_ports"]))
    /\ UNCHANGED <<rcu, lock, dirty, rd>>

\* the rest of set_state_2X after create_ports
SetPortState2X(t) ==
    /\ th[t].pc = "created"
    /\ th[t].caller = "set_state_2X"
    /\ IF th[t].exc \/ th[t].ret # 0
       THEN /\ Upd(t, [pc |-> "done", ret |-> -1])
            /\ UNCHANGED bports
       ELSE \E refused \in Refusals :
              LET r == set_port_state_2X(th[t].node, th[t].inp, Current, bports,
                                         th[t].ev, refused)
              IN /\ bports' = r.bports
                 /\ Upd(t, [pc |-> "done", ret |-> r.ret, ev |-> r.ev])
    /\ UNCHANGED <<io, rcu, lock, dirty, rd>>

\* IO::IO (Session&, const XMLNode&, DataType, bool sendish) in a session that
\* is being loaded, as far as set_state's call of create_ports: the node is
\* the one state () has just written
IOFromNode(t) ==
    /\ th[t].pc = "idle"
    /\ acquire(lock)
    /\ rcu.held = 0
    /\ \E ow \in Owners :
         LET node == state(io, Current, bports)
             io0 == [name |-> "unnamed io", direction |-> "Input",
                     default_type |-> ow.default_type, sendish |-> ow.sendish,
                     active |-> TRUE, pretty |-> "", acn |-> <<>>,
                     bundle |-> [name |-> "", channels |-> <<>>]]
             io1 == IF has_property(node, "name")
                    THEN set_name(io0, EmptySet, <<ForeignPort>>, node.props["name"]).io
                    ELSE io0
             io2 == IF has_property(node, "default-type")
                    THEN [io1 EXCEPT !.default_type = node.props["default-type"]]
                    ELSE io1
             io3 == IF has_property(node, "direction")
                    THEN [io2 EXCEPT !.direction = node.props["direction"]]
                    ELSE io2
         IN /\ io' = io3
            /\ Begin(t, [op |-> "IO(node)", caller |-> "set_state", node |-> node,
                         orig |-> [count |-> count(Current), direction |-> io.direction,
                                   pretty |-> io.pretty],
                         pc |-> "create_ports"])
    /\ rcu' = [heap |-> [o \in ObjIds |-> EmptySet], cur |-> CurObj, held |-> 0]
    /\ bports' = <<ForeignPort>>
    /\ dirty' = FALSE
    /\ rd' = [seen |-> EmptySet, committed |-> EmptySet]
    /\ UNCHANGED lock

\* the nodes of a session file in the current format, and one that is not an IO's
StateNodes ==
    {XMLNode(nm,
        ("name" :> "io") @@ ("direction" :> d) @@ ("default-type" :> "AUDIO") @@ pn,
        ch) :
        nm \in {"IO", "Route"}, d \in {"Input", "Output"},
        pn \in {NoProps, ("pretty-name" :> "Mix")},
        ch \in {<<>>,
                <<Port_get_state(NewPort("io/audio_in 1", "AUDIO", TRUE))>>,
                <<Port_get_state(NewPort("io/audio_in 1", "AUDIO", TRUE)),
                  Port_get_state(NewPort("io/midi_in 1", "MIDI", TRUE))>>}}

\* IO::set_state (node, version) of an IO that exists, as far as its call of
\* create_ports
SetState(t) ==
    /\ th[t].pc = "idle"
    /\ \E node \in StateNodes :
         LET args == [op |-> "set_state", caller |-> "set_state", node |-> node]
             io1 == IF has_property(node, "name")
                    THEN set_name(io, Current, bports, node.props["name"])
                    ELSE [io |-> io, bports |-> bports]
             io2 == IF has_property(node, "default-type")
                    THEN [io1.io EXCEPT !.default_type = node.props["default-type"]]
                    ELSE io1.io
             io3 == IF has_property(node, "direction")
                    THEN [io2 EXCEPT !.direction = node.props["direction"]]
                    ELSE io2
         IN IF incorrect_node(node)
            THEN /\ Begin(t, Merge(args, [ret |-> -1, pc |-> "done"]))
                 /\ UNCHANGED <<io, bports>>
            ELSE /\ io' = io3
                 /\ bports' = io1.bports
                 /\ Begin(t, Merge(args, [pc |-> "create_ports"]))
    /\ UNCHANGED <<rcu, lock, dirty, rd>>

\* IO::create_ports: get_port_counts, the process lock, ensure_ports (n, clear, this)
CreatePorts(t) ==
    /\ th[t].pc = "create_ports"
    /\ acquire(lock)
    /\ \E clear \in BOOLEAN :
         LET cnt == IF th[t].caller = "set_state"
                    THEN get_port_counts(th[t].node, Current)
                    ELSE get_port_counts_2X(th[t].node, io)
             args == [count |-> cnt, clear |-> clear]
             e0 == Append(th[t].ev, Call("lock", 0, "", Current, t))
         IN IF ensure_early_return(cnt, Current, clear)
            THEN /\ Upd(t, Merge(args,
                        [ret |-> 0, pc |-> "created",
                         ev |-> Append(e0, Call("unlock", 0, "", Current, t))]))
                 /\ UNCHANGED <<rcu, lock>>
            ELSE LET wc == writer_copy(rcu, CopyObj(t))
                     ti == next_type(wc.heap[wc.obj], cnt, 1)
                 IN /\ rcu' = [rcu EXCEPT !.heap = wc.heap]
                    /\ lock' = t
                    /\ Upd(t, Merge(args,
                          [w |-> wc.obj, changed |-> FALSE, ti |-> ti,
                           i |-> loop_start(wc.heap[wc.obj], ti),
                           change |-> [NoIOChange EXCEPT !.before = count(Current)],
                           ev |-> e0, pc |-> "ens_loop"]))
    /\ UNCHANGED <<io, bports, dirty, rd>>

\* The rest of set_state after create_ports, and in the constructor its
\* setup_bundle: the constructor does not look at what set_state returned; an
\* exception of the registration leaves set_state and the constructor.
SetStatePorts(t) ==
    /\ th[t].pc = "created"
    /\ th[t].caller = "set_state"
    /\ IF th[t].exc
       THEN /\ Upd(t, [pc |-> "done"])
            /\ UNCHANGED <<io, bports>>
       ELSE IF th[t].ret # 0
       THEN /\ io' = IF th[t].op = "IO(node)" THEN setup_bundle(io, Current, bports) ELSE io
            /\ Upd(t, [pc |-> "done"])
            /\ UNCHANGED bports
       ELSE LET r == IF has_property(th[t].node, "pretty-name")
                     THEN set_pretty_name(io, Current, bports,
                                          th[t].node.props["pretty-name"])
                     ELSE [io |-> io, bports |-> bports]
            IN /\ io' = IF th[t].op = "IO(node)"
                        THEN setup_bundle(r.io, Current, r.bports) ELSE r.io
               /\ bports' = r.bports
               /\ Upd(t, [pc |-> "done"])
    /\ UNCHANGED <<rcu, lock, dirty, rd>>

\* ---------------------------------------------------------------- latency
\* the loop of latency (): the largest private latency of the ports s, from
\* max_latency on
RECURSIVE private_max(_, _, _, _)
private_max(s, bp, playback, max_latency) ==
    IF Len(s) = 0 THEN max_latency
    ELSE LET latency_ == bp[Head(s)].priv[playback]
         IN private_max(Tail(s), bp, playback,
                        IF latency_ > max_latency THEN latency_ ELSE max_latency)

latency_of_capture(ioo, ps, bp) == private_max(all_ports(ps), bp, FALSE, 0)
\* IO::latency ()
latency(ioo, ps, bp) == private_max(all_ports(ps), bp, ioo.direction = "Output", 0)

\* the second loop of connected_latency
RECURSIVE connected_max(_, _, _, _)
connected_max(s, bp, playback, max_latency) ==
    IF Len(s) = 0 THEN max_latency
    ELSE LET lr == bp[Head(s)].conn[playback]
         IN connected_max(Tail(s), bp, playback,
                          IF lr > max_latency THEN lr ELSE max_latency)

private_scan_keeping(s, bp, playback, max_latency) ==
    IF \E i \in 1 .. Len(s) : connected(bp, s[i])
    THEN [connected |-> TRUE, max_latency |-> private_max(s, bp, playback, max_latency)]
    ELSE [connected |-> FALSE, max_latency |-> private_max(s, bp, playback, max_latency)]
\* the first loop of connected_latency: it stops at the first connected port
\* and sets max_latency to 0
RECURSIVE private_scan(_, _, _, _)
private_scan(s, bp, playback, max_latency) ==
    IF Len(s) = 0 THEN [connected |-> FALSE, max_latency |-> max_latency]
    ELSE IF connected(bp, Head(s)) THEN [connected |-> TRUE, max_latency |-> 0]
    ELSE LET latency_ == bp[Head(s)].priv[playback]
         IN private_scan(Tail(s), bp, playback,
                         IF latency_ > max_latency THEN latency_ ELSE max_latency)

\* IO::connected_latency (for_playback)
connected_latency(ps, bp, for_playback) ==
    LET r == private_scan(all_ports(ps), bp, for_playback, 0)
    IN IF r.connected
       THEN connected_max(all_ports(ps), bp, for_playback, r.max_latency)
       ELSE r.max_latency

\* IO::set_private_port_latencies (value, playback)
SetPrivatePortLatencies(t) ==
    /\ th[t].pc = "idle"
    /\ \E value \in 0 .. MaxLatency, playback \in BOOLEAN :
         bports' = [p \in 1 .. Len(bports) |->
                       IF contains(Current, p)
                       THEN [bports[p] EXCEPT !.priv[playback] = value]
                       ELSE bports[p]]
    /\ UNCHANGED <<io, rcu, lock, dirty, th, rd>>

\* the backend has a new latency for what a connected port is connected to
BackendLatency(t) ==
    /\ th[t].pc = "idle"
    /\ \E p \in LivePorts, value \in 0 .. MaxLatency, playback \in BOOLEAN :
         /\ contains(Current, p)
         /\ connected(bports, p)
         /\ bports' = [bports EXCEPT ![p].conn[playback] = value]
    /\ UNCHANGED <<io, rcu, lock, dirty, th, rd>>

Latency(t) ==
    /\ th[t].pc = "idle"
    /\ Begin(t, [op |-> "latency", ret |-> latency(io, Current, bports), pc |-> "done"])
    /\ UNCHANGED <<io, rcu, bports, lock, dirty, rd>>

ConnectedLatency(t) ==
    /\ th[t].pc = "idle"
    /\ \E for_playback \in BOOLEAN :
         Begin(t, [op |-> "connected_latency", for_playback |-> for_playback,
                   ret |-> connected_latency(Current, bports, for_playback),
                   pc |-> "done"])
    /\ UNCHANGED <<io, rcu, bports, lock, dirty, rd>>

\* the call has returned; the caller goes on to its next call
Return(t) ==
    /\ th[t].pc = "done"
    /\ th' = [th EXCEPT ![t] = IdleThread]
    /\ UNCHANGED <<io, rcu, bports, lock, dirty, rd>>

\* ------------------------------------------------------------------ reader
\* ports () / _ports.reader (): a reference to the current PortSet
ReaderRead ==
    /\ rcu.held = 0
    /\ rcu' = [rcu EXCEPT !.held = rcu.cur]
    /\ rd' = [rd EXCEPT !.seen = Current]
    /\ UNCHANGED <<io, bports, lock, dirty, th>>

\* the reader drops its reference
ReaderRelease ==
    /\ rcu.held # 0
    /\ rd' = [rd EXCEPT !.seen = EmptySet]
    /\ rcu' = [rcu EXCEPT !.held = 0, !.heap[OldObj] = EmptySet]
    /\ UNCHANGED <<io, bports, lock, dirty, th>>

\* ------------------------------------------------------------ specification
Step(t) ==
    \/ AddCall(t) \/ AddChanging(t) \/ AddLock(t) \/ AddCommit(t) \/ AddPost(t)
    \/ RemoveCall(t) \/ RemoveLock(t) \/ RemoveCommit(t) \/ RemovePost(t)
    \/ EnsureCall(t) \/ EnsureShrink(t) \/ EnsureGrow(t) \/ EnsureCommit(t)
    \/ Connect(t) \/ Disconnect(t)
    \/ Destroy(t)
    \/ Return(t)

\* one control thread
Next == \E t \in SeqThreads : Step(t)
Spec == Init /\ [][Next]_vars

\* the methods that write the port set
Writer(t) ==
    \/ AddCall(t) \/ AddChanging(t) \/ AddLock(t) \/ AddCommit(t) \/ AddPost(t)
    \/ RemoveCall(t) \/ RemoveLock(t) \/ RemoveCommit(t) \/ RemovePost(t)
    \/ EnsureCall(t) \/ EnsureShrink(t) \/ EnsureGrow(t) \/ EnsureCommit(t)
    \/ Return(t)

\* one control thread that writes and a reader that runs at any moment
InitRCU == Init /\ io.direction = "Input" /\ ~io.sendish
NextRCU == (\E t \in SeqThreads : Writer(t)) \/ ReaderRead \/ ReaderRelease
SpecRCU == InitRCU /\ [][NextRCU]_vars

\* The surroundings of two control threads that write: no observer answers
\* PortCountChanging, no destination is given, the backend registers every
\* port, add_port is told the type, remove_port is given a port of the
\* current PortSet, ensure_ports is called by the first thread only, without
\* clear and for audio ports, and at most MaxShared ports are ever registered.
Quiet(t) ==
    /\ th'[t].dest = ""
    /\ ~th'[t].veto_asked
    /\ th'[t].fail = "none"
    /\ ~th'[t].clear
    /\ th'[t].op = "add_port" => th'[t].argtype # "NIL"
    /\ th'[t].op = "ensure_ports" => t = 1 /\ th'[t].count["MIDI"] = 0
    /\ th[t].pc = "idle" /\ th'[t].op = "remove_port" => contains(Current, th'[t].port)
    /\ Len(bports') - 1 <= MaxShared

\* two control threads that write
NextWriters ==
    \E t \in Threads :
        \/ AddCall(t) /\ Quiet(t)
        \/ AddChanging(t) /\ Quiet(t)
        \/ AddLock(t) /\ Quiet(t)
        \/ AddCommit(t) /\ Quiet(t)
        \/ AddPost(t) /\ Quiet(t)
        \/ RemoveCall(t) /\ Quiet(t)
        \/ RemoveLock(t) /\ Quiet(t)
        \/ RemoveCommit(t) /\ Quiet(t)
        \/ RemovePost(t) /\ Quiet(t)
        \/ EnsureCall(t) /\ Quiet(t)
        \/ EnsureShrink(t) /\ Quiet(t)
        \/ EnsureGrow(t) /\ Quiet(t)
        \/ EnsureCommit(t) /\ Quiet(t)
        \/ Return(t) /\ Quiet(t)
SpecWriters == InitRCU /\ [][NextWriters]_vars

\* The surroundings of two control threads whose calls may fail under the
\* process lock: the registration may throw, no observer answers the
\* PortCountChanging question (a veto returns before the lock is asked for),
\* add_port is told the type and remove_port is given a port of the current
\* PortSet; add_port is called only while the backend has room for the ports
\* of all calls under way.
Room(t) ==
    /\ th'[t].dest = ""
    /\ ~th'[t].veto_asked
    /\ th'[t].fail # "null"
    /\ th'[t].op = "add_port" => th'[t].argtype # "NIL"
    /\ th[t].pc = "idle" /\ th'[t].op = "remove_port" => contains(Current, th'[t].port)
    /\ th[t].pc = "idle" /\ th'[t].op = "add_port"
         => Len(bports) - 1
            + Cardinality({u \in Threads : th[u].pc \in {"add_changing", "add_lock"}})
            < MaxShared

\* add_port and remove_port, the methods that take the process lock themselves
Caller(t) ==
    \/ AddCall(t) /\ Room(t)
    \/ AddChanging(t) /\ Room(t)
    \/ AddLock(t) /\ Room(t)
    \/ AddCommit(t) /\ Room(t)
    \/ AddPost(t) /\ Room(t)
    \/ RemoveCall(t) /\ Room(t)
    \/ RemoveLock(t) /\ Room(t)
    \/ RemoveCommit(t) /\ Room(t)
    \/ RemovePost(t) /\ Room(t)
    \/ Return(t) /\ Room(t)

\* two control threads under a scheduler and a mutex that are fair: a thread
\* that can take a step again and again does take one
NextProgress == \E t \in Threads : Caller(t)
SpecProgress ==
    InitRCU /\ [][NextProgress]_vars /\ \A t \in Threads : SF_vars(Caller(t))

\* The callers of ensure_ports ask for no more ports than the backend has
\* room for, so that a registration is refused only by its own outcome.
Space(t) ==
    th[t].pc = "idle" /\ th'[t].op = "ensure_ports"
        => Len(bports) - 1 + Excess(th'[t].count["AUDIO"], count(Current)["AUDIO"])
                             + Excess(th'[t].count["MIDI"], count(Current)["MIDI"]) <= MaxPorts

\* ensure_ports and the loops of ensure_ports_locked, pass by pass
Resizer(t) ==
    \/ EnsureCall(t) /\ Space(t)
    \/ EnsureShrink(t) /\ Space(t)
    \/ EnsureGrow(t) /\ Space(t)
    \/ EnsureCommit(t) /\ Space(t)
    \/ Return(t) /\ Space(t)

\* one control thread that keeps running while it is inside ensure_ports
NextResize == \E t \in SeqThreads : Resizer(t)
SpecResize ==
    InitRCU /\ [][NextResize]_vars
    /\ \A t \in SeqThreads :
         WF_vars(EnsureShrink(t) \/ EnsureGrow(t) \/ EnsureCommit(t))

\* the methods that build the bundle, with channel names assigned at any time
Builder(t) ==
    \/ SetAudioChannelNames(t)
    \/ AddCall(t) \/ AddChanging(t) \/ AddLock(t) \/ AddCommit(t) \/ AddPost(t)
    \/ EnsureCall(t) \/ EnsureShrink(t) \/ EnsureGrow(t) \/ EnsureCommit(t)
    \/ Return(t)

InitBundle == Init /\ io.direction = "Output" /\ ~io.sendish
NextBundle == \E t \in SeqThreads : Builder(t)
SpecBundle == InitBundle /\ [][NextBundle]_vars

\* the methods that shape an IO, and its state written and read back
Saver(t) ==
    \/ SetPrettyName(t)
    \/ AddCall(t) \/ AddChanging(t) \/ AddLock(t) \/ AddCommit(t) \/ AddPost(t)
    \/ EnsureCall(t) \/ EnsureShrink(t) \/ EnsureGrow(t) \/ EnsureCommit(t)
    \/ IOFromNode(t) \/ CreatePorts(t) \/ SetStatePorts(t)
    \/ Return(t)

\* the original is an audio track's IO of either direction
InitState == Init /\ ~io.sendish
NextState == \E t \in SeqThreads : Saver(t)
SpecState == InitState /\ [][NextState]_vars

\* a session is loaded: an IO that ensure_ports has shaped decodes a node of
\* the current or of the 2.X format
Loader(t) ==
    \/ EnsureCall(t)
    \/ (Return(t) /\ th[t].op = "ensure_ports")
    \/ SetState(t) \/ SetStatePorts(t)
    \/ SetState2X(t) \/ SetPortState2X(t)
    \/ CreatePorts(t)
    \/ EnsureShrink(t) \/ EnsureGrow(t) \/ EnsureCommit(t)

InitLegacy == Init /\ ~io.sendish
NextLegacy == \E t \in SeqThreads : Loader(t)
SpecLegacy == InitLegacy /\ [][NextLegacy]_vars

\* ports are added and connected, latencies are set and asked for
Meter(t) ==
    \/ AddCall(t) \/ AddChanging(t) \/ AddLock(t) \/ AddCommit(t) \/ AddPost(t)
    \/ SetPrivatePortLatencies(t) \/ BackendLatency(t)
    \/ Latency(t) \/ ConnectedLatency(t)
    \/ Return(t)

NextLatency == \E t \in SeqThreads : Meter(t)
InitLatency == Init /\ ~io.sendish
SpecLatency == InitLatency /\ [][NextLatency]_vars

\* An IO whose name has any length up to twice what a port name keeps of
\* it, with k ports of one type that carry the numbers 1 .. k: the next port
\* number has one, two, three or four digits.
InitNames ==
    /\ \E len \in 0 .. 14, dir \in {"Input", "Output"}, sendish \in BOOLEAN,
          ty \in Types, k \in {0, 9, 99, 999} :
         LET io0 == [name |-> legalize_io_name(Take("a:bcdefghijklmn", len)),
                     direction |-> dir, default_type |-> ty, sendish |-> sendish,
                     active |-> TRUE, pretty |-> "", acn |-> <<>>,
                     bundle |-> [name |-> "", channels |-> <<>>]]
             ps == [EmptySet EXCEPT ![ty] = [i \in 1 .. k |-> i + 1]]
             bp == <<ForeignPort>>
                   \o [i \in 1 .. k |->
                         NewPort(snprintf(PortNameSize + 1,
                                          port_name_base(io0, ty) \o " " \o ToString(i)),
                                 ty, dir = "Input")]
         IN /\ io = setup_bundle(io0, ps, bp)
            /\ rcu = [heap |-> [o \in ObjIds |-> IF o = CurObj THEN ps ELSE EmptySet],
                      cur |-> CurObj, held |-> 0]
            /\ bports = bp
    /\ lock = 0
    /\ dirty = FALSE
    /\ th = [t \in Threads |-> IdleThread]
    /\ rd = [seen |-> EmptySet, committed |-> EmptySet]

\* build_legal_port_name (ports, type) for the current PortSet
BuildLegalPortName(t) ==
    /\ th[t].pc = "idle"
    /\ \E ty \in Types :
         th' = [th EXCEPT ![t] =
                  Merge(IdleThread,
                        [op |-> "build_legal_port_name", type |-> ty, pc |-> "done",
                         portname |-> build_legal_port_name(io, Current, bports, ty)])]
    /\ UNCHANGED <<io, rcu, bports, lock, dirty, rd>>

NextNames == \E t \in SeqThreads : BuildLegalPortName(t)
SpecNames == InitNames /\ [][NextNames]_vars

\* ------------------------------------------------------------- properties
\* thread t has finished a call of op and not yet returned to its caller
Done(t, op) == th[t].pc = "done" /\ th[t].op = op

\* the entries of kind k in the trace of t's call
Evs(t, k) == {n \in 1 .. Len(th[t].ev) : th[t].ev[n].k = k}
HasEv(t, k) == Evs(t, k) # {}

\* the call of t left the port set, the backend and the dirty flag alone
\* and emitted nothing
Untouched(t) ==
    /\ th[t].ev = <<>>
    /\ Current = th[t].pre.ps
    /\ bports = th[t].pre.bports
    /\ dirty = th[t].pre.dirty
    /\ nchannels(io) = th[t].pre.nch

\* C1: an ensure_ports call in which no port registration fails returns 0
\* and leaves, for every data type, exactly the requested number of ports.
EnsurePortsExactCounts ==
    \A t \in Threads :
        (Done(t, "ensure_ports") /\ th[t].fail = "none")
            => /\ th[t].ret = 0
               /\ \A ty \in Types : count(Current)[ty] = th[t].count[ty]

\* a call that removed an audio port and created a MIDI port
EnsurePortsExactCountsWitness ==
    /\ Done(1, "ensure_ports") /\ th[1].fail = "none" /\ th[1].ret = 0
    /\ count(th[1].pre.ps) = [AUDIO |-> 2, MIDI |-> 0]
    /\ th[1].count = [AUDIO |-> 1, MIDI |-> 1]
    /\ count(Current) = [AUDIO |-> 1, MIDI |-> 1]

\* C2: the PortSet a reader obtained keeps the contents it had when it was
\* read, whatever a writer does to its copy or commits meanwhile, and the
\* current PortSet is always the one committed last, never a copy in the
\* middle of its update.
ReadSnapshotIsolation ==
    /\ rcu.held # 0 => rcu.heap[rcu.held] = rd.seen
    /\ Current = rd.committed

\* the reader still holds the set of before a commit while the next writer
\* has changed its copy
ReadSnapshotIsolationWitness ==
    /\ rcu.held = OldObj
    /\ rd.seen # Current
    /\ num_ports(rd.seen) > 0
    /\ th[1].w # 0 /\ rcu.heap[th[1].w] # Current

\* C3: after every ensure_ports, add_port or remove_port that returned
\* success the bundle has as many channels as the PortSet has ports.
BundleMatchesPortCount ==
    \A t \in Threads :
        (/\ th[t].pc = "done"
         /\ th[t].op \in {"ensure_ports", "add_port", "remove_port"}
         /\ th[t].ret = 0)
            => nchannels(io) = num_ports(Current)

\* C4: add_port of a MIDI port to an IO that has a MIDI port already fails
\* before it emits PortCountChanging, takes the lock, registers or changes
\* anything; an AUDIO request always passes the rule and reaches
\* PortCountChanging.
AddPortCardinalityRule ==
    \A t \in Threads :
        Done(t, "add_port") =>
            /\ (th[t].type = "MIDI" /\ count(th[t].pre.ps)["MIDI"] >= 1)
                   => (th[t].ret = -1 /\ Untouched(t))
            /\ th[t].type = "AUDIO" => HasEv(t, "PortCountChanging")

\* the type was left to default to MIDI and the IO had a MIDI port
AddPortCardinalityRuleWitness ==
    /\ Done(1, "add_port") /\ th[1].argtype = "NIL" /\ th[1].type = "MIDI"
    /\ count(th[1].pre.ps) = [AUDIO |-> 1, MIDI |-> 1]
    /\ th[1].ret = -1 /\ Untouched(1)

\* C5: when an observer of PortCountChanging answers with a non-zero value,
\* add_port and remove_port return -1, leave the PortSet and the backend
\* alone and do not take the process lock.
NonZeroObserverVetoes ==
    \A t \in Threads :
        (/\ th[t].pc = "done"
         /\ th[t].op \in {"add_port", "remove_port"}
         /\ th[t].veto_asked)
            => /\ th[t].ret = -1
               /\ Current = th[t].pre.ps
               /\ bports = th[t].pre.bports
               /\ ~HasEv(t, "lock")

\* the ports of ps carry pairwise different names
NamesDistinct(ps) ==
    \A i, j \in 1 .. num_ports(ps) :
        i # j => bports[all_ports(ps)[i]].name # bports[all_ports(ps)[j]].name

\* C6: no two ports of a committed PortSet have the same name, and neither
\* have two ports of a writer's copy while ensure_ports or add_port fill it.
PortNamesDistinct ==
    /\ lock = 0 => NamesDistinct(Current)
    /\ \A t \in Threads : th[t].w # 0 => NamesDistinct(rcu.heap[th[t].w])

\* a port created after the removal of the first one took the free number 1
\* next to the port numbered 2, under an owner name cut to the length limit
PortNamesDistinctWitness ==
    /\ lock = 0 /\ io.sendish
    /\ Current["AUDIO"] = <<3, 4>>
    /\ bports[3].name = port_name_base(io, "AUDIO") \o " 2"
    /\ bports[4].name = port_name_base(io, "AUDIO") \o " 1"

\* how often the call of t unregistered port p
Unregistrations(t, p) ==
    Cardinality({n \in Evs(t, "unregister") : th[t].ev[n].p = p})

\* how often port p had been unregistered when the call of t began
UnregBefore(t, p) ==
    IF p <= Len(th[t].pre.bports) THEN th[t].pre.bports[p].unreg ELSE 0

\* C7: ensure_ports unregisters every port it removes from the PortSet
\* exactly once and no port that stays in it; ensure_ports (audio 2) on a
\* new IO followed by ensure_ports (audio 0) succeeds both times and leaves
\* an empty PortSet, a bundle without channels and both ports unregistered
\* once.
ShrinkUnregistersOnce ==
    \A t \in Threads :
        Done(t, "ensure_ports") =>
            /\ \A p \in 1 .. Len(bports) :
                   LET removed == contains(th[t].pre.ps, p) /\ ~contains(Current, p)
                   IN /\ Unregistrations(t, p) = (IF removed THEN 1 ELSE 0)
                      /\ bports[p].unreg = UnregBefore(t, p) + (IF removed THEN 1 ELSE 0)
            /\ (/\ Len(th[t].pre.bports) = 1
                /\ th[t].count = [AUDIO |-> 2, MIDI |-> 0]
                /\ th[t].fail = "none")
                   => (th[t].ret = 0 /\ Current = [AUDIO |-> <<2, 3>>, MIDI |-> <<>>])
            /\ (/\ Len(th[t].pre.bports) = 3
                /\ th[t].pre.ps = [AUDIO |-> <<2, 3>>, MIDI |-> <<>>]
                /\ th[t].count = ZeroCount)
                   => /\ th[t].ret = 0
                      /\ empty(Current)
                      /\ nchannels(io) = 0
                      /\ bports[2].unreg = 1 /\ bports[3].unreg = 1

\* the end of the second call of the scenario
ShrinkUnregistersOnceWitness ==
    /\ Done(1, "ensure_ports") /\ th[1].count = ZeroCount /\ th[1].ret = 0
    /\ io.direction = "Input"
    /\ Len(bports) = 3
    /\ th[1].pre.ps = [AUDIO |-> <<2, 3>>, MIDI |-> <<>>] /\ th[1].pre.nch = 2
    /\ Unregistrations(1, 2) = 1 /\ Unregistrations(1, 3) = 1
    /\ bports[2].unreg = 1 /\ bports[3].unreg = 1
    /\ empty(Current) /\ nchannels(io) = 0

\* the changed signals of t's call
ChangedEvs(t) == {th[t].ev[n].chg : n \in Evs(t, "changed")}

\* C8: after add_port returned 0 the PortSet holds one more port of the
\* requested type (of the default type when none was given), the earlier
\* ports in their earlier order, the new port was registered once as an
\* input or an output by the IO's direction, changed was emitted once with
\* ConfigurationChanged and the counts of before and after, and the new
\* port is connected to the destination if one was given.
AddPortEffects ==
    \A t \in Threads :
        (Done(t, "add_port") /\ th[t].ret = 0) =>
            LET ty == th[t].type
                our == th[t].our_port
                pre == th[t].pre
            IN /\ ty = (IF th[t].argtype = "NIL" THEN io.default_type ELSE th[t].argtype)
               /\ count(Current) = [count(pre.ps) EXCEPT ![ty] = @ + 1]
               /\ ~contains(pre.ps, our) /\ our = Len(pre.bports) + 1
               /\ Len(bports) = Len(pre.bports) + 1
               /\ remove(Current, our) = pre.ps
               /\ InSeq(Current[ty], our)
               /\ bports[our].type = ty /\ bports[our].unreg = 0
               /\ bports[our].input = (io.direction = "Input")
               /\ Cardinality(Evs(t, "register")) = 1
               /\ Cardinality(Evs(t, "changed")) = 1
               /\ ChangedEvs(t) = {[type |-> {"ConfigurationChanged"},
                                    before |-> count(pre.ps), after |-> count(Current)]}
               /\ th[t].dest # "" => th[t].dest \in bports[our].conns

\* an output IO with ports of both types got one more port of its default
\* type, connected to the destination
AddPortEffectsWitness ==
    /\ Done(1, "add_port") /\ th[1].ret = 0
    /\ th[1].argtype = "NIL" /\ th[1].dest # "" /\ io.direction = "Output"
    /\ count(th[1].pre.ps) = [AUDIO |-> 1, MIDI |-> 1]
    /\ count(Current)[th[1].type] = 2
    /\ th[1].dest \in bports[th[1].our_port].conns

\* C9: remove_port of a port of the PortSet that no observer stops returns
\* 0, takes the port out of the PortSet, unregisters it once, emits changed
\* once with ConfigurationChanged, and with ConnectionsChanged exactly when
\* the port had a connection, rebuilds the bundle and marks the session
\* dirty.
RemovePortEffects ==
    \A t \in Threads :
        (Done(t, "remove_port") /\ th[t].r = 0 /\ contains(th[t].pre.ps, th[t].port)) =>
            LET p == th[t].port
                pre == th[t].pre
            IN /\ th[t].ret = 0
               /\ Current = remove(pre.ps, p) /\ ~contains(Current, p)
               /\ count(Current) = [count(pre.ps) EXCEPT ![pre.bports[p].type] = @ - 1]
               /\ Unregistrations(t, p) = 1 /\ Cardinality(Evs(t, "unregister")) = 1
               /\ bports[p].unreg = pre.bports[p].unreg + 1
               /\ Cardinality(Evs(t, "changed")) = 1
               /\ ChangedEvs(t) =
                    {[type |-> {"ConfigurationChanged"}
                                \cup (IF pre.bports[p].conns # {}
                                      THEN {"ConnectionsChanged"} ELSE {}),
                      before |-> count(pre.ps), after |-> count(Current)]}
               /\ HasEv(t, "setup_bundle") /\ io = setup_bundle(io, Current, bports)
               /\ nchannels(io) = num_ports(Current)
               /\ HasEv(t, "set_dirty") /\ dirty

\* a connected port was removed and another port stays
RemovePortEffectsWitness ==
    /\ Done(1, "remove_port") /\ th[1].ret = 0
    /\ th[1].pre.bports[th[1].port].conns # {}
    /\ "ConnectionsChanged" \in th[1].change.type
    /\ num_ports(Current) = 1 /\ nchannels(io) = 1

\* C10: connect and disconnect return 0 and do nothing when the other
\* port's name is empty or the port handle is null, and return -1 and do
\* nothing when the port is not in the PortSet: no backend call, no changed
\* signal, no dirty mark.
ConnectInvalidArguments ==
    \A t \in Threads :
        (th[t].pc = "done" /\ th[t].op \in {"connect", "disconnect"}) =>
            /\ (th[t].other = "" \/ th[t].port = 0)
                   => (th[t].ret = 0 /\ Untouched(t))
            /\ (th[t].other # "" /\ th[t].port # 0
                    /\ ~contains(th[t].pre.ps, th[t].port))
                   => (th[t].ret = -1 /\ Untouched(t))

\* connect with a live port of another owner while the IO has a port
ConnectInvalidArgumentsWitness ==
    /\ Done(1, "connect") /\ th[1].port = 1 /\ bports[1].unreg = 0
    /\ th[1].other # "" /\ num_ports(Current) > 0
    /\ th[1].ret = -1 /\ Untouched(1)

\* C11: connect and disconnect with a port of the IO and a non-empty name
\* return 0, emit changed once with ConnectionsChanged and the caller's src
\* and mark the session dirty when the backend makes or breaks the link, and
\* return -1 with no changed signal and no dirty mark when the backend fails.
ConnectOutcome ==
    \A t \in Threads :
        (/\ th[t].pc = "done" /\ th[t].op \in {"connect", "disconnect"}
         /\ th[t].port # 0 /\ th[t].other # ""
         /\ contains(th[t].pre.ps, th[t].port)) =>
            /\ HasEv(t, th[t].op) # HasEv(t, th[t].op \o "_failed")
            /\ HasEv(t, th[t].op) =>
                  /\ th[t].ret = 0
                  /\ Cardinality(Evs(t, "changed")) = 1
                  /\ \A n \in Evs(t, "changed") :
                        /\ th[t].ev[n].chg.type = {"ConnectionsChanged"}
                        /\ th[t].ev[n].src = caller_src(t)
                  /\ HasEv(t, "set_dirty") /\ dirty
                  /\ (th[t].other \in bports[th[t].port].conns) = (th[t].op = "connect")
            /\ HasEv(t, th[t].op \o "_failed") =>
                  /\ th[t].ret = -1
                  /\ ~HasEv(t, "changed") /\ ~HasEv(t, "set_dirty")
                  /\ dirty = th[t].pre.dirty /\ bports = th[t].pre.bports

\* a link made earlier was broken
ConnectOutcomeWitness ==
    /\ Done(1, "disconnect") /\ th[1].ret = 0
    /\ th[1].port # 0 /\ contains(th[1].pre.ps, th[1].port)
    /\ th[1].other \in th[1].pre.bports[th[1].port].conns
    /\ th[1].other \notin bports[th[1].port].conns
    /\ HasEv(1, "changed") /\ dirty

\* the PortSet that the removals and registrations of a call make of ps
RECURSIVE Replay(_, _, _)
Replay(ps, ev, bp) ==
    IF Len(ev) = 0 THEN ps
    ELSE Replay(CASE Head(ev).k = "unregister" -> remove(ps, Head(ev).p)
                  [] Head(ev).k = "register" -> add(ps, Head(ev).p, bp[Head(ev).p].type)
                  [] OTHER -> ps,
                Tail(ev), bp)

\* C12: an ensure_ports call in which a registration fails returns -1 and
\* rolls nothing back: the current PortSet is the earlier one without the
\* ports removed and with the ports registered before the failure.
EnsurePortsNoRollback ==
    \A t \in Threads :
        (Done(t, "ensure_ports") /\ th[t].fail # "none") =>
            /\ th[t].ret = -1
            /\ Current = Replay(th[t].pre.ps, th[t].ev, bports)
            /\ \A n \in Evs(t, "unregister") : ~contains(Current, th[t].ev[n].p)
            /\ \A n \in Evs(t, "register") :
                  /\ contains(Current, th[t].ev[n].p)
                  /\ bports[th[t].ev[n].p].unreg = 0

\* an audio port was removed and a MIDI port registered before the second
\* MIDI registration failed
EnsurePortsNoRollbackWitness ==
    /\ Done(1, "ensure_ports") /\ th[1].fail = "null" /\ th[1].ret = -1
    /\ count(th[1].pre.ps) = [AUDIO |-> 1, MIDI |-> 0]
    /\ th[1].count = [AUDIO |-> 0, MIDI |-> 2]
    /\ count(Current) = [AUDIO |-> 0, MIDI |-> 1]

\* C16: whenever no method of the IO is executing, the bundle has as many
\* channels as the current PortSet has ports.
BundleAlwaysMatches ==
    (\A t \in Threads : th[t].pc = "idle") => nchannels(io) = num_ports(Current)

\* C17: whenever changed is emitted with an IOChange that contains
\* ConfigurationChanged, the emitting thread holds the process lock.
ConfigurationChangedUnderLock ==
    \A t \in Threads :
        \A n \in Evs(t, "changed") :
            "ConfigurationChanged" \in th[t].ev[n].chg.type => th[t].ev[n].lk = t

\* add_port has emitted its changed signal
ConfigurationChangedUnderLockWitness ==
    /\ th[1].op = "add_port" /\ th[1].pc = "add_post"
    /\ \E n \in Evs(1, "changed") :
          /\ th[1].ev[n].chg.type = {"ConfigurationChanged"}
          /\ th[1].ev[n].lk = 1

\* C18: an operation emits PortCountChanged exactly when it changed the
\* number of ports of the PortSet.
PortCountChangedIffChanged ==
    \A t \in Threads :
        th[t].pc = "done" =>
            (HasEv(t, "PortCountChanged") <=> count(Current) # count(th[t].pre.ps))

\* C19: after ensure_ports with clear returned 0 no port of the current
\* PortSet has a connection; disconnect_all runs after the removals and
\* registrations, also when the requested count is the current one.
ClearDisconnectsAll ==
    \A t \in Threads :
        (Done(t, "ensure_ports") /\ th[t].clear /\ th[t].ret = 0) =>
            /\ \A i \in 1 .. num_ports(Current) : bports[all_ports(Current)[i]].conns = {}
            /\ HasEv(t, "disconnect_all")
            /\ \A n \in Evs(t, "disconnect_all") :
                  \A m \in Evs(t, "register") \cup Evs(t, "unregister") : m < n

\* the count asked for was the current one and a port had a connection
ClearDisconnectsAllWitness ==
    /\ Done(1, "ensure_ports") /\ th[1].clear /\ th[1].ret = 0
    /\ th[1].count = count(th[1].pre.ps) /\ Current = th[1].pre.ps
    /\ \E i \in 1 .. num_ports(Current) :
          th[1].pre.bports[all_ports(Current)[i]].conns # {}
    /\ \A i \in 1 .. num_ports(Current) : bports[all_ports(Current)[i]].conns = {}

\* the name of channel j of n channels of type ty under the assigned names acn
DisplayName(j, n, ty, acn) ==
    IF ty = "MIDI" THEN ToString(j + 1)
    ELSE IF Len(acn) = n THEN acn[j + 1]
    ELSE IF n = 1 THEN "mono"
    ELSE IF n = 2 THEN (IF j = 0 THEN "L" ELSE "R")
    ELSE ToString(j + 1)

\* the channels of the bundle that stand for the ports of type ty
ChannelsOf(ty) ==
    IF ty = "AUDIO" THEN SubSeq(io.bundle.channels, 1, Len(Current["AUDIO"]))
    ELSE SubSeq(io.bundle.channels, Len(Current["AUDIO"]) + 1, Len(io.bundle.channels))

\* C15: in a bundle just rebuilt, channel j of the N channels of a type is
\* named, for audio, by the j-th assigned audio channel name when exactly N
\* names are assigned, else "mono" for N = 1, "L" and "R" for N = 2 and the
\* number j + 1 otherwise; for MIDI always by the number j + 1.
BundleChannelNames ==
    \A t \in Threads :
        (th[t].pc = "done" /\ HasEv(t, "setup_bundle")) =>
            \A ty \in Types :
                /\ Len(ChannelsOf(ty)) = Len(Current[ty])
                /\ \A j \in 0 .. Len(Current[ty]) - 1 :
                      /\ ChannelsOf(ty)[j + 1].type = ty
                      /\ ChannelsOf(ty)[j + 1].name
                            = DisplayName(j, Len(Current[ty]), ty, io.acn)

\* two audio ports under two assigned names, and a MIDI port
BundleChannelNamesWitness ==
    /\ th[1].pc = "done" /\ HasEv(1, "setup_bundle")
    /\ io.acn = <<"left", "right">>
    /\ count(Current) = [AUDIO |-> 2, MIDI |-> 1]
    /\ ChannelsOf("AUDIO")[2].name = "right"
    /\ ChannelsOf("MIDI")[1].name = "1"

ConnectsOf(t, p) ==
    LET c == SelectSeq(th[t].ev, LAMBDA e : e.k = "connect" /\ e.p = p)
    IN [n \in 1 .. Len(c) |-> c[n].s]

\* the groups whose string the IO node of thread t's set_state_2X holds for
\* its direction
GroupsOf(t) ==
    LET k == IF th[t].inp THEN "inputs" ELSE "outputs"
    IN {g \in LegacyGroups :
           /\ th[t].node.name = "IO"
           /\ has_property(th[t].node, k)
           /\ th[t].node.props[k] = braces(g)}

\* C14: after set_state_2X of a 2.X node whose inputs (on an Input IO) or
\* outputs (on an Output IO) hold k brace groups the IO has k audio ports,
\* and port i was connected to the names of group i, in their order
LegacyDecodeConnectsGroups ==
    \A t \in Threads :
        Done(t, "set_state_2X")
        => \A g \in GroupsOf(t) :
              /\ count(Current)["AUDIO"] = Len(g)
              /\ \A i \in 1 .. Len(g) : ConnectsOf(t, nth(Current, i - 1)) = g[i]

\* the calls that change the number of ports
Mutators == {"add_port", "remove_port", "ensure_ports"}

\* C21: in add_port, remove_port and ensure_ports every PortCountChanged and
\* every changed with ConfigurationChanged is in the trace of the call that
\* caused it, was emitted when n_ports () was already the count the call
\* leaves (the count PortCountChanged carries and the after of the IOChange),
\* and a changed comes after a PortCountChanged of the same call
NotificationsAfterCommit ==
    \A t \in Threads :
        th[t].pc = "done" /\ th[t].op \in Mutators
        => /\ \A n \in Evs(t, "PortCountChanged") :
                 /\ th[t].ev[n].c = th[t].ev[n].n
                 /\ th[t].ev[n].n = count(Current)
           /\ \A n \in Evs(t, "changed") :
                 "ConfigurationChanged" \in th[t].ev[n].chg.type
                 => /\ th[t].ev[n].n = th[t].ev[n].chg.after
                    /\ th[t].ev[n].n = count(Current)
                    /\ \E m \in Evs(t, "PortCountChanged") : m < n

\* an ensure_ports that changed the count has emitted both
NotificationsAfterCommitWitness ==
    /\ Done(1, "ensure_ports")
    /\ \E n \in Evs(1, "changed") :
          /\ th[1].ev[n].chg.after # th[1].ev[n].chg.before
          /\ th[1].ev[n].chg.after = count(Current)
          /\ \E m \in Evs(1, "PortCountChanged") : m < n

\* a '{' of str that no '}' follows
Unbalanced(str) ==
    \E i \in 1 .. Len(str) :
        /\ SubSeq(str, i, i) = "{"
        /\ \A j \in i + 1 .. Len(str) : SubSeq(str, j, j) # "}"

\* thread t decodes, in this step, a node that is not named "IO"
DecodesIncorrectNode(t) ==
    /\ th[t].pc = "idle"
    /\ th'[t].op \in {"set_state", "set_state_2X"}
    /\ th'[t].node.name # "IO"

\* C22: set_state and set_state_2X of a node whose name is not "IO" return a
\* negative result at once, without an exception and with the IO's name,
\* direction, default type and PortSet (and its ports) as they were; and a
\* set_state_2X that came to decode an inputs or outputs string with a '{'
\* that no '}' follows returns a negative result without an exception
IncorrectNodeRejected ==
    /\ [][\A t \in Threads :
            DecodesIncorrectNode(t)
            => /\ th'[t].pc = "done" /\ th'[t].ret < 0 /\ ~th'[t].exc
               /\ io' = io /\ rcu' = rcu /\ bports' = bports]_vars
    /\ [](\A t \in Threads :
            /\ Done(t, "set_state_2X")
            /\ th[t].fail = "none"
            /\ th[t].node.name = "IO"
            /\ has_property(th[t].node, IF th[t].inp THEN "inputs" ELSE "outputs")
            /\ Unbalanced(th[t].node.props[IF th[t].inp THEN "inputs" ELSE "outputs"])
            => th[t].ret < 0 /\ ~th[t].exc)

\* set_state of a node named "Route" has returned on an IO that has ports
IncorrectNodeRejectedWitness ==
    /\ Done(1, "set_state")
    /\ th[1].node.name = "Route"
    /\ th[1].ret = -1
    /\ num_ports(Current) = 2

\* the largest member of a set of latencies, 0 for the empty set
Largest(S) == IF S = {} THEN 0 ELSE CHOOSE m \in S : \A x \in S : x <= m

\* the ports of the current PortSet
CurrentPorts == {all_ports(Current)[i] : i \in 1 .. num_ports(Current)}

\* C23: latency () returns the largest upper bound of the private latency
\* ranges of the ports of the current PortSet, the playback range for an
\* Output IO and the capture range for an Input IO, and 0 when there is no port
LatencyIsLargestPrivate ==
    \A t \in Threads :
        Done(t, "latency")
        => th[t].ret = Largest({bports[p].priv[io.direction = "Output"] : p \in CurrentPorts})

\* an Output IO whose ports differ in their playback latency and whose
\* capture latencies are smaller
LatencyIsLargestPrivateWitness ==
    /\ Done(1, "latency")
    /\ io.direction = "Output"
    /\ th[1].ret = MaxLatency
    /\ \E p, q \in CurrentPorts :
          /\ bports[p].priv[TRUE] = MaxLatency
          /\ bports[q].priv[TRUE] < MaxLatency
    /\ \A p \in CurrentPorts : bports[p].priv[FALSE] < MaxLatency

\* C24: connected_latency (for_playback) returns, when a port of the PortSet
\* is connected, the largest upper bound of the connected latency ranges of
\* all ports whatever their private latencies, and otherwise the largest
\* private upper bound; it changes neither the PortSet nor a port
ConnectedLatencyIgnoresPrivate ==
    \A t \in Threads :
        Done(t, "connected_latency")
        => /\ th[t].ret =
                IF \E p \in CurrentPorts : connected(bports, p)
                THEN Largest({bports[p].conn[th[t].for_playback] : p \in CurrentPorts})
                ELSE Largest({bports[p].priv[th[t].for_playback] : p \in CurrentPorts})
           /\ Current = th[t].pre.ps
           /\ bports = th[t].pre.bports

\* the first port is unconnected and has the larger private latency, a later
\* port is connected, and the result is the smaller connected latency
ConnectedLatencyIgnoresPrivateWitness ==
    /\ Done(1, "connected_latency")
    /\ num_ports(Current) >= 2
    /\ ~connected(bports, all_ports(Current)[1])
    /\ bports[all_ports(Current)[1]].priv[th[1].for_playback] = MaxLatency
    /\ connected(bports, all_ports(Current)[2])
    /\ th[1].ret < MaxLatency

\* C25: the name build_legal_port_name returns is no longer than
\* port_name_size () less the length of the engine's name, whatever the
\* length of the owner's name, the type and the port number
PortNameFits ==
    \A t \in Threads :
        Done(t, "build_legal_port_name")
        => Len(th[t].portname) <= PortNameSize - Len(MyName)

\* a thread between the writer's copy and the end of the writer's scope
InWriter(t) == th[t].w # 0
\* the ports of this IO that are registered with the backend
Registered == {p \in 2 .. Len(bports) : bports[p].unreg = 0}

\* C26: at most one thread is between the writer's copy and its commit, that
\* thread holds the process lock from the copy to the commit, the current
\* PortSet changes only in a step of the thread that holds the lock, and with
\* add_port and remove_port running in two threads no committed update is
\* lost: once no writer is open the current PortSet holds exactly the ports
\* that are registered and not unregistered
WritersSerialized ==
    /\ [](/\ Cardinality({t \in Threads : InWriter(t)}) <= 1
          /\ \A t \in Threads : InWriter(t) => lock = t
          /\ (\A t \in Threads : ~InWriter(t)) => CurrentPorts = Registered)
    /\ [][Current' # Current
           => \E t \in Threads : lock = t /\ th[t].w # 0 /\ th'[t].w = 0]_vars

\* add_port in one thread and remove_port in the other, both begun from the
\* same PortSet and both committed: the added port is there, the removed one
\* is not
WritersSerializedWitness ==
    /\ Done(1, "add_port") /\ th[1].ret = 0
    /\ Done(2, "remove_port") /\ th[2].ret = 0
    /\ th[1].before = th[2].before
    /\ contains(Current, th[1].our_port)
    /\ ~contains(Current, th[2].port)

\* the least number from 1 on that, written after the base, is no port's name
LeastFree(names, base) ==
    CHOOSE n \in 1 .. Cardinality(names) + 1 :
        /\ base \o " " \o ToString(n) \notin names
        /\ \A m \in 1 .. n - 1 : base \o " " \o ToString(m) \in names

\* the name add_port registered its port under
RegisteredName(t) == th[t].ev[CHOOSE n \in Evs(t, "register") : TRUE].s

\* C27: the name add_port builds for its port is the base (owner name, "/",
\* type and direction word), a space and the least number from 1 on that no
\* port of the PortSet carries, so 1 for an empty PortSet and a freed number
\* again; it depends on the owner's name, direction and sendish, the type
\* and the names of the ports only
PortNumberLeastFree ==
    \A t \in Threads :
        Done(t, "add_port") /\ HasEv(t, "register")
        => RegisteredName(t) =
              port_name_base(io, th[t].type) \o " "
              \o ToString(IF empty(th[t].pre.ps) THEN 1
                          ELSE LeastFree(port_names(th[t].pre.ps, th[t].pre.bports),
                                         port_name_base(io, th[t].type)))

\* the PortSet held the port numbered 2 but none numbered 1, and the new
\* port took the number 1
PortNumberLeastFreeWitness ==
    /\ Done(1, "add_port") /\ HasEv(1, "register")
    /\ port_name_base(io, th[1].type) \o " 2"
           \in port_names(th[1].pre.ps, th[1].pre.bports)
    /\ RegisteredName(1) = port_name_base(io, th[1].type) \o " 1"

\* the ports of type ty the call of t unregistered, in the order of the calls
UnregisteredOf(t, ty) ==
    SelectSeq(th[t].ev,
              LAMBDA e : /\ e.k = "unregister"
                         /\ e.p <= Len(th[t].pre.bports)
                         /\ th[t].pre.bports[e.p].type = ty)

\* C28: ensure_ports changes the ports of a type at the high-index end only:
\* the ports it removes are those of the highest indices, unregistered from
\* the highest index down, the ports it creates are appended, the ports below
\* keep their index, and a type whose count already matches keeps its ports
HighIndexEndOnly ==
    \A t \in Threads :
        Done(t, "ensure_ports") =>
            \A ty \in Types :
                LET a == th[t].pre.ps[ty]
                    b == Current[ty]
                    n == th[t].count[ty]
                    u == UnregisteredOf(t, ty)
                IN /\ \A i \in 1 .. Min(Len(a), Len(b)) : b[i] = a[i]
                   /\ \A i \in Len(a) + 1 .. Len(b) : b[i] > Len(th[t].pre.bports)
                   /\ th[t].ret = 0 => Len(b) = n
                   /\ Len(a) >= n => Len(b) \in {n, Len(a)}
                   /\ Len(a) < n => Len(a) <= Len(b) /\ Len(b) <= n
                   /\ Len(u) = (IF Len(a) > Len(b) THEN Len(a) - Len(b) ELSE 0)
                   /\ \A j \in 1 .. Len(u) : u[j].p = a[Len(a) - j + 1]

\* of two audio ports the higher one goes and the lower one stays where it
\* was, while a MIDI port is appended
HighIndexEndOnlyWitness ==
    /\ Done(1, "ensure_ports") /\ th[1].ret = 0
    /\ Len(th[1].pre.ps["AUDIO"]) = 2 /\ th[1].count["AUDIO"] = 1
    /\ Len(UnregisteredOf(1, "AUDIO")) = 1
    /\ UnregisteredOf(1, "AUDIO")[1].p = th[1].pre.ps["AUDIO"][2]
    /\ Current["AUDIO"] = <<th[1].pre.ps["AUDIO"][1]>>
    /\ Len(th[1].pre.ps["MIDI"]) = 0 /\ Len(Current["MIDI"]) = 1

\* C29: whatever the interleaving of add_port calls running in two threads,
\* the current PortSet never holds more than one MIDI port
MidiCapUnderConcurrency == count(Current)["MIDI"] <= MidiPortCap

\* C30: every port of a snapshot obtained through ports () without the
\* process lock is registered at the moment the snapshot is obtained: no
\* operation unregisters a port that is still in the current PortSet
SnapshotPortsRegistered ==
    [][rcu.held = 0 /\ rcu'.held # 0
       => \A i \in 1 .. num_ports(rd'.seen) :
             bports'[all_ports(rd'.seen)[i]].unreg = 0]_vars

\* C31: remove_port with a port that is not in the PortSet returns a negative
\* result and does nothing else: the PortSet and the backend's ports are as
\* before, and neither PortCountChanged nor changed is emitted
RemoveAbsentPortNoEffect ==
    \A t \in Threads :
        Done(t, "remove_port") /\ ~contains(th[t].pre.ps, th[t].port)
        => /\ th[t].ret < 0
           /\ Current = th[t].pre.ps
           /\ bports = th[t].pre.bports
           /\ ~HasEv(t, "PortCountChanged")
           /\ ~HasEv(t, "changed")

\* the ports registered with the backend and not unregistered, in bp
RegisteredIn(bp) == {p \in 1 .. Len(bp) : bp[p].unreg = 0}

\* C32: whenever add_port returns a negative result (the cardinality rule, a
\* veto, a failed registration, a failed connect to the destination) the
\* PortSet and the ports registered with the backend are those from before
\* the call
AddPortFailureNoEffect ==
    \A t \in Threads :
        Done(t, "add_port") /\ th[t].ret < 0
        => /\ Current = th[t].pre.ps
           /\ RegisteredIn(bports) = RegisteredIn(th[t].pre.bports)

\* n_ports () when the call of t took the process lock: the count of the
\* PortSet that is current until the call commits
CountAtLock(t) == th[t].ev[CHOOSE n \in Evs(t, "lock") : TRUE].n

\* C33: every changed signal that carries ConfigurationChanged has in
\* IOChange.before the count of the PortSet that was current just before the
\* call's commit and in IOChange.after the count of the PortSet the call
\* committed, also while another thread calls add_port or remove_port
ConfigurationChangedCounts ==
    \A t \in Threads :
        th[t].pc = "done" /\ th[t].op \in {"add_port", "remove_port", "ensure_ports"}
        => \A n \in Evs(t, "changed") :
              "ConfigurationChanged" \in th[t].ev[n].chg.type
              => /\ th[t].ev[n].chg.before = CountAtLock(t)
                 /\ th[t].ev[n].chg.after = th[t].ev[n].n

\* the ports this IO registered with the backend that are not unregistered
OwnRegistered == {p \in 1 .. Len(bports) : bports[p].mine /\ bports[p].unreg = 0}

\* C34: whenever no call is in progress, the ports this IO registered and
\* has not unregistered are exactly the ports of its current PortSet, after
\* any sequence of ensure_ports, add_port and remove_port calls, failed ones
\* included
RegisteredEqualsPortSet ==
    (\A t \in Threads : th[t].pc \in {"idle", "done", "gone"})
    => OwnRegistered = CurrentPorts

\* ensure_ports failed at its second registration and left the first port,
\* next to one an earlier call had created
RegisteredEqualsPortSetWitness ==
    /\ Done(1, "ensure_ports") /\ th[1].ret = -1
    /\ num_ports(th[1].pre.ps) = 1
    /\ num_ports(Current) = 2
    /\ OwnRegistered = CurrentPorts

\* how many "Port" children of the node say they are of type ts
Declared(node, ts) ==
    Len(SelectSeq(node.children,
                  LAMBDA c : /\ c.name = "Port"
                             /\ "type" \in DOMAIN c.props
                             /\ c.props["type"] = ts))

Larger(a, b) == IF a > b THEN a ELSE b

\* C35: after a successful set_state of a current-format node that declares
\* a audio and m MIDI "Port" children and names no bundle, the IO has the
\* larger of its previous audio count and a audio ports and the larger of its
\* previous MIDI count and m MIDI ports: set_state removes no port
SetStateKeepsPorts ==
    \A t \in Threads :
        Done(t, "set_state") /\ th[t].ret = 0
        => /\ count(Current)["AUDIO"]
                = Larger(Len(th[t].pre.ps["AUDIO"]), Declared(th[t].node, "audio"))
           /\ count(Current)["MIDI"]
                = Larger(Len(th[t].pre.ps["MIDI"]), Declared(th[t].node, "midi"))
           /\ \A ty \in Types : \A i \in 1 .. Len(th[t].pre.ps[ty]) :
                 Current[ty][i] = th[t].pre.ps[ty][i]

\* an IO with two audio ports reads a node that declares one audio and one
\* MIDI port: both audio ports stay and a MIDI port is created
SetStateKeepsPortsWitness ==
    /\ Done(1, "set_state") /\ th[1].ret = 0
    /\ Len(th[1].pre.ps["AUDIO"]) = 2
    /\ Declared(th[1].node, "audio") = 1 /\ Declared(th[1].node, "midi") = 1
    /\ count(Current) = [AUDIO |-> 2, MIDI |-> 1]

Removals(t, ty) ==
    Cardinality({n \in Evs(t, "unregister") : th[t].pre.bports[th[t].ev[n].p].type = ty})
Registrations(t, ty) ==
    Cardinality({n \in Evs(t, "register") : bports[th[t].ev[n].p].type = ty})
    + Cardinality({n \in Evs(t, "register_failed") : TypeSeq[th[t].ti] = ty})

\* the passes ensure_ports_locked makes for each type are bounded by the
\* distance between the requested and the current count, and the port number
\* a pass would take is one of 1 .. 9999
PassesBounded ==
    \A t \in Threads :
        th[t].op = "ensure_ports" /\ th[t].pc \in {"ens_loop", "done"} =>
            /\ \A ty \in Types :
                 /\ Removals(t, ty) <= Excess(Len(th[t].pre.ps[ty]), th[t].count[ty])
                 /\ Registrations(t, ty) <= Excess(th[t].count[ty], Len(th[t].pre.ps[ty]))
            /\ th[t].pc = "ens_loop" =>
                 \A ty \in Types :
                     find_port_hole(rcu.heap[th[t].w], bports, port_name_base(io, ty))
                         \in 1 .. PortNumberLimit

\* C37: ensure_ports_locked terminates for every requested count and every
\* current PortSet: a call that has entered its loops returns, after at most
\* |requested - current| passes for each type, each shrink pass removing one
\* port and each growth pass registering one or failing, with the port number
\* found among 1 .. 9998 or given as 9999
EnsurePortsTerminates ==
    /\ []PassesBounded
    /\ \A t \in SeqThreads : (th[t].pc = "ens_loop") ~> Done(t, "ensure_ports")

\* a call that removed two audio ports and registered a MIDI port has returned
EnsurePortsTerminatesWitness ==
    /\ Done(1, "ensure_ports") /\ th[1].ret = 0
    /\ Removals(1, "AUDIO") = 2 /\ Registrations(1, "MIDI") = 1
    /\ count(Current) = [AUDIO |-> 0, MIDI |-> 1]
====
